---------------------------- MODULE Spec2Model ----------------------------
(***************************************************************************)
(* A model of the liminal stream-processing runtime (src/src/core):        *)
(*   - the pub/sub channel substrate (channel.rs): Broadcast, Direct       *)
(*     (mpsc), Shared (flume) and Fanout channels;                         *)
(*   - the channel registry (registry.rs);                                 *)
(*   - the stage-graph builder PipelineManager::connect_stages             *)
(*     (pipeline.rs);                                                      *)
(*   - the stage run loop Stage::run (stage.rs) with the broadcast         *)
(*     control channel, and PipelineManager::wait_for_all.                 *)
(***************************************************************************)
EXTENDS Integers, Sequences, FiniteSets, TLC

(***************************************************************************)
(* Bounds of the model.                                                    *)
(***************************************************************************)
\* publish calls made in one behaviour, over all producers
MaxMsgs == 3
\* channel capacities range over 1..MaxCap
MaxCap == 2
\* messages the input stage generates in one behaviour of the stage tasks
MaxEmit == 3
\* the times a timing function is applied to range over 0..MaxTime
MaxTime == 2
\* messages one timing-enabled stage handles in one behaviour
MaxArrivals == 12

\* process calls followed in one run of a stage
MaxCalls == 6

Producers == {"p1", "p2"}
Subscribers == {"s1", "s2"}

VARIABLES
    \* ---- channel layer (channel.rs) ----
    channel,      \* the channel under test
    prod,         \* producer -> the publish call it is inside of (or Idle)
    sent,         \* producer -> number of publish calls made
    got,          \* subscriber -> sequence of values returned by recv()
    subscribed,   \* subscribers that hold a receiver handle
    panicked,     \* subscribers whose subscribe() call panicked
    attachedAt,   \* history: message -> subscribers attached when publish was called
    completed     \* history: messages whose publish returned Ok, in that order

chanVars == <<channel, prod, sent, got, subscribed, panicked, attachedAt, completed>>

VARIABLES
    \* ---- stage-graph builder (pipeline.rs, registry.rs) ----
    config,       \* stage name -> its StageConfig (or Absent)
    order,        \* the list get_all_stage_configs returns
    stages,       \* stage name -> the ProcessingContext of its Stage
    registry,     \* ChannelRegistry.channels: stream name -> channel
    phase,        \* where connect_stages is: "first", "resolve", "ok", "err", "panic"
    idx,          \* position in the list being iterated (0: at the head of the while loop)
    deferred,     \* deferred_stages
    newDeferred,  \* new_deferred_stages
    progress,     \* progress_made
    errNames,     \* the stage names the returned error lists
    tries,        \* history: calls of try_connect_stage in this run
    run,          \* 1: first run, 2: the same configuration wired again in another order
    firstRun      \* history: outcome of the first run (phase, contexts, error names)

connVars == <<config, order, stages, registry, phase, idx, deferred, newDeferred,
              progress, errNames, tries, run, firstRun>>

VARIABLES
    \* ---- stage tasks (stage.rs, pipeline.rs start_all / wait_for_all) ----
    streams,       \* stream name -> the channel the stages are wired to
    controlCh,     \* the control broadcast channel
    task,          \* stage -> its task: "unspawned", "running", "exited" (Terminate), "failed" (process error), "panicked"
    proc,          \* stage -> where its process() future is
    ctrlc,         \* "armed": waiting for Ctrl-C, "sent": Terminate was sent
    joined,        \* wait_for_all has returned
    emitted,       \* messages the input stage has generated
    blockedAtTerm  \* history: stage -> what process() was blocked on when Terminate was sent

VARIABLES
    \* ---- start_all (pipeline.rs) ----
    startPhase,    \* "starting": inside start_all, "started": it returned Ok, "failed": it returned Err
    startOrder,    \* the list get_all_stage_configs returns to start_all
    startIdx,      \* position of start_all in that list
    startStep,     \* position of start_all in the body of its loop (index in StartSteps)
    initCalls,     \* history: stage -> number of init() calls
    initSaw        \* history: stage -> what was attached to it when init() was called

bootVars == <<startPhase, startOrder, startIdx, startStep, initCalls, initSaw>>

runVars == <<streams, controlCh, task, proc, ctrlc, joined, emitted, blockedAtTerm, bootVars>>

VARIABLES
    \* ---- timing (message.rs, timing.rs, timing_mixin.rs) ----
    tmsg,          \* the message a timing function is applied to
    tcfg,          \* the TimingConfig of the stage
    now,           \* SystemTime::now() as the first reading of a call sees it
    now2,          \* SystemTime::now() as a later reading of the same call sees it
    tout,          \* what the last timing function applied returned
    wmgr,          \* the WatermarkManager of the stage
    arrivals,      \* messages the stage has processed with process_with_timing
    attached,      \* history: the last watermark the stage attached, and the one before
    scenario       \* history: how much of the scenario of event times has arrived

timeVars == <<tmsg, tcfg, now, now2, tout, wmgr, arrivals, attached, scenario>>

VARIABLES
    \* ---- processor factory, build_all and the input stages (factory.rs, pipeline.rs, processors/input) ----
    processorRegistry,
    defaultsInstalled,
    stageConfigs,
    built,
    buildPhase,
    buildBatch,
    buildErr,
    outbox

buildVars == <<processorRegistry, defaultsInstalled, stageConfigs, built, buildPhase, buildBatch, buildErr, outbox>>

VARIABLES
    \* ---- validate_config (config/validation.rs) ----
    vconfig,
    vresult

validVars == <<vconfig, vresult>>

VARIABLES
    \* ---- locks a stage task holds (pipeline.rs, mqtt.rs, channel.rs) ----
    lkConfig,
    lkPc,
    lkHeld,
    lkIdx,
    lkBuf,
    lkEmitted

lockVars == <<lkConfig, lkPc, lkHeld, lkIdx, lkBuf, lkEmitted>>

VARIABLES
    \* ---- wait_for_all has not returned (pipeline.rs) ----
    waitResult

joinVars == <<waitResult>>

VARIABLES
    \* ---- Stage::run of one stage (core/stage.rs) ----
    srControl,
    srPc,
    srCalls,
    srLast,
    srResult,
    srTaken

stageVars == <<srControl, srPc, srCalls, srLast, srResult, srTaken>>

VARIABLES
    \* ---- build_all, connect_stages and start_all over the configured entries (pipeline.rs) ----
    enConfig,
    enPipelines,
    enNames,
    enStages,
    enPhase,
    enIdx,
    enHandles,
    enTasks

entryVars == <<enConfig, enPipelines, enNames, enStages, enPhase, enIdx, enHandles, enTasks>>

VARIABLES
    \* ---- process of a stage with several inputs (fusion.rs, rule.rs, scale.rs, output/mqtt.rs) ----
    miKind,
    miOrder,
    miArrived,
    miProcessed,
    miPos,
    miLast

multiVars == <<miKind, miOrder, miArrived, miProcessed, miPos, miLast>>

VARIABLES
    \* ---- calls of register_processor and create_processor by the application (factory.rs) ----
    faRegistered,
    faLast

factoryVars == <<faRegistered, faLast>>

vars == <<chanVars, connVars, runVars, timeVars, buildVars, validVars, lockVars, joinVars, stageVars, entryVars, multiVars, factoryVars>>

(***************************************************************************)
(* Channel substrate (channel.rs).  A channel is a record; the operators   *)
(* below are the constructor, subscribe, publish and recv of each variant. *)
(***************************************************************************)
Kinds == {"Broadcast", "Direct", "Shared", "Fanout"}

\* Subscriber::recv returns Option<M>: a message <<producer, n>> or None.
None == <<"none", 0>>

RECURSIVE NextPowerOfTwo(_, _)
NextPowerOfTwo(n, p) == IF p >= n THEN p ELSE NextPowerOfTwo(n, 2 * p)

\* BroadcastChannel::new calls tokio::sync::broadcast::channel(capacity), which
\* allocates capacity.next_power_of_two() slots: that many values are retained.
BroadcastBufLen(capacity) == NextPowerOfTwo(capacity, 1)

\* Channel::new(kind, capacity): MpscChannel::new, BroadcastChannel::new,
\* FlumeChannel::new, FanoutChannel::new.
NewChannel(kind, capacity) ==
    [ kind     |-> kind,
      capacity |-> capacity,
      receiver |-> TRUE,    \* Mpsc: receiver: Mutex<Option<Receiver>> is Some
      queue    |-> << >>,   \* Mpsc / Flume: the bounded buffer
      log      |-> << >>,   \* Broadcast: every value sent; the last BufLen are retained
      next     |-> << >>,   \* Broadcast: receiver handle -> its cursor (values consumed or skipped)
      senders  |-> << >>,   \* Fanout: senders: Vec<mpsc::Sender>, one per subscribe()
      fanq     |-> << >>,   \* Fanout: receiver handle -> its own bounded buffer
      closed   |-> {},      \* Fanout: handles whose mpsc::Receiver was dropped
      handles  |-> {} ]     \* receiver handles handed out so far

\* mutant of MpscSubscribe: a later call hands out a receiver again
MpscSubscribeAgain(ch, h) ==
    [ok |-> TRUE, chan |-> [ch EXCEPT !.receiver = FALSE, !.handles = @ \cup {h}]]

\* PubSubChannel::subscribe for handle h.  ok = FALSE is the panic of
\* .expect("mpsc: subscribe() called more than once"), which yields no receiver.
MpscSubscribe(ch, h) ==
    IF ch.receiver
    THEN [ok |-> TRUE, chan |-> [ch EXCEPT !.receiver = FALSE, !.handles = @ \cup {h}]]
    ELSE [ok |-> FALSE, chan |-> ch]

BroadcastSubscribe(ch, h) ==
    [ok |-> TRUE,
     chan |-> [ch EXCEPT !.next = (h :> Len(ch.log)) @@ @, !.handles = @ \cup {h}]]

FlumeSubscribe(ch, h) ==
    [ok |-> TRUE, chan |-> [ch EXCEPT !.handles = @ \cup {h}]]

FanoutSubscribe(ch, h) ==
    [ok |-> TRUE,
     chan |-> [ch EXCEPT !.senders = Append(@, h),
                         !.fanq = (h :> << >>) @@ @,
                         !.handles = @ \cup {h}]]

ChannelSubscribe(ch, h) ==
    CASE ch.kind = "Direct"    -> MpscSubscribe(ch, h)
      [] ch.kind = "Broadcast" -> BroadcastSubscribe(ch, h)
      [] ch.kind = "Shared"    -> FlumeSubscribe(ch, h)
      [] ch.kind = "Fanout"    -> FanoutSubscribe(ch, h)

\* A publish call in progress: the message, and for Fanout the snapshot of
\* the senders taken under the lock and the index of the next sender.
Idle == [msg |-> None, targets |-> << >>, i |-> 0]

PublishCall(ch, m) ==
    [msg |-> m, targets |-> IF ch.kind = "Fanout" THEN ch.senders ELSE << >>, i |-> 1]

\* mutant of HasRoom: send never waits for room
HasRoomAlways(buffer, capacity) == TRUE

\* Room in a bounded mpsc / flume buffer: send().await completes only then.
HasRoom(buffer, capacity) == Len(buffer) < capacity

\* Can the publish call make its next step (is the awaited send ready)?
\* mutant of BroadcastCanSend: send waits for the slowest receiver
BroadcastCanSendBackpressure(ch, call) ==
    \A h \in DOMAIN ch.next : Len(ch.log) - ch.next[h] < BroadcastBufLen(ch.capacity)

MpscCanSend(ch, call) == HasRoom(ch.queue, ch.capacity)
BroadcastCanSend(ch, call) == TRUE
FlumeCanSend(ch, call) == HasRoom(ch.queue, ch.capacity)
FanoutCanSend(ch, call) ==
    IF call.i > Len(call.targets) THEN TRUE
    ELSE IF call.targets[call.i] \in ch.closed THEN TRUE
    ELSE HasRoom(ch.fanq[call.targets[call.i]], ch.capacity)

ChannelCanSend(ch, call) ==
    CASE ch.kind = "Direct"    -> MpscCanSend(ch, call)
      [] ch.kind = "Broadcast" -> BroadcastCanSend(ch, call)
      [] ch.kind = "Shared"    -> FlumeCanSend(ch, call)
      [] ch.kind = "Fanout"    -> FanoutCanSend(ch, call)

\* One step of publish: result "ok" / "err" when publish returns, "pending"
\* when a Fanout publish goes on to its next sender.
MpscSend(ch, call) ==
    [chan |-> [ch EXCEPT !.queue = Append(@, call.msg)], call |-> Idle, result |-> "ok"]

\* broadcast::Sender::send fails (and stores nothing) when no receiver exists
BroadcastSend(ch, call) ==
    IF DOMAIN ch.next = {}
    THEN [chan |-> ch, call |-> Idle, result |-> "err"]
    ELSE [chan |-> [ch EXCEPT !.log = Append(@, call.msg)], call |-> Idle, result |-> "ok"]

FlumeSend(ch, call) ==
    [chan |-> [ch EXCEPT !.queue = Append(@, call.msg)], call |-> Idle, result |-> "ok"]

\* mutant of FanoutSend: publish returns after the first sender
FanoutSendFirstOnly(ch, call) ==
    IF call.i > Len(call.targets)
    THEN [chan |-> ch, call |-> Idle, result |-> "ok"]
    ELSE [chan |-> [ch EXCEPT !.fanq[call.targets[call.i]] = Append(@, call.msg)],
          call |-> Idle, result |-> "ok"]

\* the loop of FanoutChannel::publish over the cloned senders: a send to a
\* sender whose receiver is gone fails, and the ? returns FanoutError at once
FanoutSend(ch, call) ==
    IF call.i > Len(call.targets)
    THEN [chan |-> ch, call |-> Idle, result |-> "ok"]
    ELSE LET h == call.targets[call.i]
             c2 == [ch EXCEPT !.fanq[h] = Append(@, call.msg)]
         IN  IF h \in ch.closed
             THEN [chan |-> ch, call |-> Idle, result |-> "err"]
             ELSE IF call.i = Len(call.targets)
             THEN [chan |-> c2, call |-> Idle, result |-> "ok"]
             ELSE [chan |-> c2, call |-> [call EXCEPT !.i = @ + 1], result |-> "pending"]

ChannelSend(ch, call) ==
    CASE ch.kind = "Direct"    -> MpscSend(ch, call)
      [] ch.kind = "Broadcast" -> BroadcastSend(ch, call)
      [] ch.kind = "Shared"    -> FlumeSend(ch, call)
      [] ch.kind = "Fanout"    -> FanoutSend(ch, call)

\* Subscriber::recv for handle h: is a value (or a lag notice) ready?
BroadcastLagging(ch, h) == Len(ch.log) - ch.next[h] > BroadcastBufLen(ch.capacity)

SubscriberCanRecv(ch, h) ==
    CASE ch.kind = "Direct"    -> ch.queue # << >>
      [] ch.kind = "Broadcast" -> ch.next[h] < Len(ch.log)
      [] ch.kind = "Shared"    -> ch.queue # << >>
      [] ch.kind = "Fanout"    -> ch.fanq[h] # << >>

\* mutant of BroadcastRecv: a lag is skipped and the oldest retained value returned
BroadcastRecvSkipLag(ch, h) ==
    LET from == IF BroadcastLagging(ch, h)
                THEN Len(ch.log) - BroadcastBufLen(ch.capacity)
                ELSE ch.next[h]
    IN  [value |-> ch.log[from + 1], chan |-> [ch EXCEPT !.next[h] = from + 1]]

\* Subscriber::recv, Broadcast arm: Ok(msg) => Some(msg); Lagged(_) => None,
\* the cursor having moved to the oldest retained value.
BroadcastRecv(ch, h) ==
    IF BroadcastLagging(ch, h)
    THEN [value |-> None,
          chan |-> [ch EXCEPT !.next[h] = Len(ch.log) - BroadcastBufLen(ch.capacity)]]
    ELSE [value |-> ch.log[ch.next[h] + 1],
          chan |-> [ch EXCEPT !.next[h] = @ + 1]]

MpscRecv(ch, h) == [value |-> Head(ch.queue), chan |-> [ch EXCEPT !.queue = Tail(@)]]

\* mutant of FlumeRecv: the value is read but stays in the buffer
FlumeRecvPeek(ch, h) == [value |-> Head(ch.queue), chan |-> ch]

FlumeRecv(ch, h) == [value |-> Head(ch.queue), chan |-> [ch EXCEPT !.queue = Tail(@)]]

FanoutRecv(ch, h) == [value |-> Head(ch.fanq[h]), chan |-> [ch EXCEPT !.fanq[h] = Tail(@)]]

SubscriberRecv(ch, h) ==
    CASE ch.kind = "Direct"    -> MpscRecv(ch, h)
      [] ch.kind = "Broadcast" -> BroadcastRecv(ch, h)
      [] ch.kind = "Shared"    -> FlumeRecv(ch, h)
      [] ch.kind = "Fanout"    -> FanoutRecv(ch, h)

(***************************************************************************)
(* Channel specification: producers and subscribers using one channel      *)
(* through publish / subscribe / recv, freely interleaved.                 *)
(***************************************************************************)
Messages == Producers \X (1..MaxMsgs)

\* publish calls made so far
Published == sent["p1"] + sent["p2"]

ChanInit ==
    /\ \E k \in Kinds, c \in 1..MaxCap : channel = NewChannel(k, c)
    /\ prod = [p \in Producers |-> Idle]
    /\ sent = [p \in Producers |-> 0]
    /\ got = [s \in Subscribers |-> << >>]
    /\ subscribed = {}
    /\ panicked = {}
    /\ attachedAt = << >>
    /\ completed = << >>
    \* the stage-graph builder is not running
    /\ config = << >> /\ order = << >> /\ stages = << >> /\ registry = << >>
    /\ phase = "idle" /\ idx = 0 /\ deferred = << >> /\ newDeferred = << >>
    /\ progress = FALSE /\ errNames = << >> /\ tries = 0 /\ run = 0 /\ firstRun = << >>
    \* no timing function is applied
    /\ tmsg = << >> /\ tcfg = << >> /\ now = 0 /\ now2 = 0 /\ tout = << >>
    /\ wmgr = << >> /\ arrivals = 0 /\ attached = << >> /\ scenario = 0
    \* no stage task has been started
    /\ streams = << >> /\ controlCh = << >> /\ task = << >> /\ proc = << >>
    /\ ctrlc = "idle" /\ joined = FALSE /\ emitted = 0 /\ blockedAtTerm = << >>
    /\ startPhase = "idle" /\ startOrder = << >> /\ startIdx = 0 /\ startStep = 0
    /\ initCalls = << >> /\ initSaw = << >>
    \* idle: processor factory, build_all and the input stages (factory.rs, pipeline.rs, processors/input)
    /\ processorRegistry = << >> /\ defaultsInstalled = 0 /\ stageConfigs = << >> /\ built = << >> /\ buildPhase = "none" /\ buildBatch = 0 /\ buildErr = "" /\ outbox = << >>
    \* idle: validate_config (config/validation.rs)
    /\ vconfig = << >> /\ vresult = << >>
    \* idle: locks a stage task holds (pipeline.rs, mqtt.rs, channel.rs)
    /\ lkConfig = << >> /\ lkPc = "none" /\ lkHeld = {} /\ lkIdx = 0 /\ lkBuf = << >> /\ lkEmitted = 0
    \* idle: wait_for_all has not returned (pipeline.rs)
    /\ waitResult = "none"
    \* idle: Stage::run of one stage (core/stage.rs)
    /\ srControl = << >> /\ srPc = "none" /\ srCalls = 0 /\ srLast = "none" /\ srResult = "none" /\ srTaken = 0
    \* idle: build_all, connect_stages and start_all over the configured entries (pipeline.rs)
    /\ enConfig = << >> /\ enPipelines = << >> /\ enNames = << >> /\ enStages = << >> /\ enPhase = "none" /\ enIdx = 0 /\ enHandles = << >> /\ enTasks = << >>
    \* idle: process of a stage with several inputs (fusion.rs, rule.rs, scale.rs, output/mqtt.rs)
    /\ miKind = "none" /\ miOrder = << >> /\ miArrived = << >> /\ miProcessed = << >> /\ miPos = 0 /\ miLast = "none"
    \* idle: calls of register_processor and create_processor by the application (factory.rs)
    /\ faRegistered = << >> /\ faLast = << >>

\* a stage calls channel.subscribe()
ChanSubscribe(s) ==
    /\ s \notin subscribed \cup panicked
    /\ LET r == ChannelSubscribe(channel, s)
       IN  /\ channel' = r.chan
           /\ subscribed' = IF r.ok THEN subscribed \cup {s} ELSE subscribed
           /\ panicked' = IF r.ok THEN panicked ELSE panicked \cup {s}
    /\ UNCHANGED <<prod, sent, got, attachedAt, completed>>
    /\ UNCHANGED <<connVars, runVars, timeVars, buildVars, validVars, lockVars, joinVars, stageVars, entryVars, multiVars, factoryVars>>

\* a stage calls channel.publish(msg)
ChanPublish(p) ==
    /\ prod[p] = Idle
    /\ Published < MaxMsgs
    /\ LET m == <<p, sent[p] + 1>>
       IN  /\ prod' = [prod EXCEPT ![p] = PublishCall(channel, m)]
           /\ attachedAt' = (m :> subscribed) @@ attachedAt
    /\ sent' = [sent EXCEPT ![p] = @ + 1]
    /\ UNCHANGED <<channel, got, subscribed, panicked, completed>>
    /\ UNCHANGED <<connVars, runVars, timeVars, buildVars, validVars, lockVars, joinVars, stageVars, entryVars, multiVars, factoryVars>>

\* the send awaited inside publish completes
ChanSend(p) ==
    /\ prod[p] # Idle
    /\ ChannelCanSend(channel, prod[p])
    /\ LET r == ChannelSend(channel, prod[p])
       IN  /\ channel' = r.chan
           /\ prod' = [prod EXCEPT ![p] = r.call]
           /\ completed' = IF r.result = "ok" THEN Append(completed, prod[p].msg)
                           ELSE completed
    /\ UNCHANGED <<sent, got, subscribed, panicked, attachedAt>>
    /\ UNCHANGED <<connVars, runVars, timeVars, buildVars, validVars, lockVars, joinVars, stageVars, entryVars, multiVars, factoryVars>>

\* a subscriber's recv().await returns
ChanRecv(s) ==
    /\ s \in subscribed
    /\ SubscriberCanRecv(channel, s)
    /\ LET r == SubscriberRecv(channel, s)
       IN  /\ channel' = r.chan
           /\ got' = [got EXCEPT ![s] = Append(@, r.value)]
    /\ UNCHANGED <<prod, sent, subscribed, panicked, attachedAt, completed>>
    /\ UNCHANGED <<connVars, runVars, timeVars, buildVars, validVars, lockVars, joinVars, stageVars, entryVars, multiVars, factoryVars>>

ChanNext ==
    \/ \E s \in Subscribers : ChanSubscribe(s)
    \/ \E p \in Producers : ChanPublish(p)
    \/ \E p \in Producers : ChanSend(p)
    \/ \E s \in Subscribers : ChanRecv(s)

ChanSpec == ChanInit /\ [][ChanNext]_vars


(***************************************************************************)
(* Channel registry (registry.rs) and the stage-graph builder              *)
(* PipelineManager::connect_stages (pipeline.rs).                          *)
(***************************************************************************)
InputStages == {"src"}
TransformStages == {"A", "B", "C"}
OutputStages == {"out"}
StageNames == InputStages \cup TransformStages \cup OutputStages
Streams == {"a", "b", "c"}

\* StageConfig.output = None
NoStream == "-"
\* default_capacity()
DefaultCapacity == 128

\* the stage is not in the configuration
Absent == [inputs |-> << >>, output |-> NoStream, kind |-> "Absent"]

Configured(cfg) == {n \in StageNames : cfg[n] # Absent}

\* StageConfig values as validate_config admits them: an input stage has an
\* output and no inputs, a pipeline stage has inputs and an output, an output
\* stage has inputs and no output.  A stage without a [channel] table gets
\* ChannelConfig::default(), a Broadcast channel of DefaultCapacity.
StageConfigs(inputLists, outputs, kinds) ==
    {[inputs |-> i, output |-> o, kind |-> k] : i \in inputLists, o \in outputs, k \in kinds}

\* the configurations of the model: what each stage may be configured as
ConfigChoices(n) ==
    CASE n = "src" -> StageConfigs({<< >>}, {"a"}, {"Broadcast"}) \cup {Absent}
      [] n = "A"   -> StageConfigs({<<"a">>, <<"b">>, <<"a", "b">>}, {"a", "b"},
                                   {"Broadcast", "Direct"})
      [] n = "B"   -> StageConfigs({<<"a">>, <<"b">>}, {"b", "c"}, {"Broadcast"})
      [] n = "C"   -> StageConfigs({<<"b">>, <<"c">>}, {"a", "c"}, {"Broadcast"}) \cup {Absent}
      [] n = "out" -> StageConfigs({<<"b">>, <<"c">>, <<"b", "c">>}, {NoStream},
                                   {"Broadcast"}) \cup {Absent}

\* ChannelRegistry::get
RegistryGet(reg, name) == name \in DOMAIN reg

\* mutant of GetOrCreate: a later call replaces the channel
GetOrCreateReplace(reg, name, kind, capacity) ==
    (name :> NewChannel(kind, capacity)) @@ reg

\* ChannelRegistry::get_or_create: an existing entry is returned as it is
GetOrCreate(reg, name, kind, capacity) ==
    IF name \in DOMAIN reg THEN reg ELSE (name :> NewChannel(kind, capacity)) @@ reg

\* ProcessingContext::new
NewContext == [inputs |-> << >>, output |-> NoStream]

\* PipelineManager::are_all_inputs_available
AreAllInputsAvailable(reg, cfg) ==
    \A i \in 1..Len(cfg.inputs) : RegistryGet(reg, cfg.inputs[i])

\* PipelineManager::map_inputs from the i-th input on.  The handle of the
\* subscriber attached for the i-th input of stage n is <<n, i>>.
RECURSIVE MapInputs(_, _, _, _, _)
MapInputs(reg, ctx, n, inputs, i) ==
    IF i > Len(inputs)
    THEN [result |-> "ok", registry |-> reg, context |-> ctx]
    ELSE IF ~RegistryGet(reg, inputs[i])
    THEN [result |-> "err", registry |-> reg, context |-> ctx]
    ELSE LET r == ChannelSubscribe(reg[inputs[i]], <<n, i>>)
         IN  IF ~r.ok
             THEN [result |-> "panic", registry |-> reg, context |-> ctx]
             ELSE MapInputs([reg EXCEPT ![inputs[i]] = r.chan],
                            [ctx EXCEPT !.inputs = (inputs[i] :> <<n, i>>) @@ @],
                            n, inputs, i + 1)

\* PipelineManager::create_output
CreateOutput(reg, ctx, cfg) ==
    IF cfg.output = NoStream
    THEN [registry |-> reg, context |-> ctx]
    ELSE [registry |-> GetOrCreate(reg, cfg.output, cfg.kind, DefaultCapacity),
          context |-> [ctx EXCEPT !.output = cfg.output]]

\* mutant of TryConnectStage: the inputs are mapped without first testing
\* that all of them are there
TryConnectStageUnchecked(reg, stgs, n, cfg) ==
    IF n \notin DOMAIN stgs
    THEN [result |-> "err", registry |-> reg, stages |-> stgs]
    ELSE LET m == MapInputs(reg, stgs[n], n, cfg.inputs, 1)
         IN  IF m.result # "ok"
             THEN [result |-> m.result, registry |-> m.registry,
                   stages |-> [stgs EXCEPT ![n] = m.context]]
             ELSE LET c == CreateOutput(m.registry, m.context, cfg)
                  IN  [result |-> "ok", registry |-> c.registry,
                       stages |-> [stgs EXCEPT ![n] = c.context]]

\* PipelineManager::try_connect_stage
TryConnectStage(reg, stgs, n, cfg) ==
    IF n \notin DOMAIN stgs
    THEN [result |-> "err", registry |-> reg, stages |-> stgs]
    ELSE IF ~AreAllInputsAvailable(reg, cfg)
    THEN [result |-> "err", registry |-> reg, stages |-> stgs]
    ELSE LET m == MapInputs(reg, stgs[n], n, cfg.inputs, 1)
         IN  IF m.result # "ok"
             THEN [result |-> m.result, registry |-> m.registry,
                   stages |-> [stgs EXCEPT ![n] = m.context]]
             ELSE LET c == CreateOutput(m.registry, m.context, cfg)
                  IN  [result |-> "ok", registry |-> c.registry,
                       stages |-> [stgs EXCEPT ![n] = c.context]]

\* the orders in which a HashMap iteration can yield the members of set S
Orders(S) ==
    {o \in [1..Cardinality(S) -> S] : \A i, j \in 1..Cardinality(S) : o[i] = o[j] => i = j}

Reverse(seq) == [i \in 1..Len(seq) |-> seq[Len(seq) + 1 - i]]

SelectIn(seq, S) == SelectSeq(seq, LAMBDA x : x \in S)

\* PipelineManager::get_all_stage_configs: the inputs, then the stages of the
\* pipelines, then the outputs, each map in its iteration order
GetAllStageConfigs(cfg, transformOrder) ==
    SelectIn(<<"src">>, Configured(cfg)) \o transformOrder \o SelectIn(<<"out">>, Configured(cfg))

\* PipelineManager::build_all: one Stage per configured stage
BuildAll(cfg) == [n \in Configured(cfg) |-> NewContext]

\* state at the entry of connect_stages, for the list all_stages
ConnectEntry(cfg, all) ==
    /\ order' = all
    /\ stages' = BuildAll(cfg)
    /\ registry' = << >>
    /\ phase' = "first"
    /\ idx' = 1
    /\ deferred' = << >>
    /\ newDeferred' = << >>
    /\ progress' = FALSE
    /\ errNames' = << >>
    /\ tries' = 0

ConnectInit ==
    /\ \E cs \in ConfigChoices("src"), ca \in ConfigChoices("A"), cb \in ConfigChoices("B"),
          cc \in ConfigChoices("C"), co \in ConfigChoices("out") :
          config = [n \in StageNames |->
                      CASE n = "src" -> cs [] n = "A" -> ca [] n = "B" -> cb
                        [] n = "C" -> cc [] n = "out" -> co]
    /\ \E o \in Orders(Configured(config) \cap TransformStages) :
          order = GetAllStageConfigs(config, o)
    /\ stages = BuildAll(config)
    /\ registry = << >>
    /\ phase = "first"
    /\ idx = 1
    /\ deferred = << >>
    /\ newDeferred = << >>
    /\ progress = FALSE
    /\ errNames = << >>
    /\ tries = 0
    /\ run = 1
    /\ firstRun = << >>
    \* the channel under test is not in use
    /\ channel = << >> /\ prod = << >> /\ sent = << >> /\ got = << >>
    /\ subscribed = {} /\ panicked = {} /\ attachedAt = << >> /\ completed = << >>
    \* no stage task has been started
    /\ streams = << >> /\ controlCh = << >> /\ task = << >> /\ proc = << >>
    /\ ctrlc = "idle" /\ joined = FALSE /\ emitted = 0 /\ blockedAtTerm = << >>
    /\ startPhase = "idle" /\ startOrder = << >> /\ startIdx = 0 /\ startStep = 0
    /\ initCalls = << >> /\ initSaw = << >>
    \* no timing function is applied
    /\ tmsg = << >> /\ tcfg = << >> /\ now = 0 /\ now2 = 0 /\ tout = << >>
    /\ wmgr = << >> /\ arrivals = 0 /\ attached = << >> /\ scenario = 0
    \* idle: processor factory, build_all and the input stages (factory.rs, pipeline.rs, processors/input)
    /\ processorRegistry = << >> /\ defaultsInstalled = 0 /\ stageConfigs = << >> /\ built = << >> /\ buildPhase = "none" /\ buildBatch = 0 /\ buildErr = "" /\ outbox = << >>
    \* idle: validate_config (config/validation.rs)
    /\ vconfig = << >> /\ vresult = << >>
    \* idle: locks a stage task holds (pipeline.rs, mqtt.rs, channel.rs)
    /\ lkConfig = << >> /\ lkPc = "none" /\ lkHeld = {} /\ lkIdx = 0 /\ lkBuf = << >> /\ lkEmitted = 0
    \* idle: wait_for_all has not returned (pipeline.rs)
    /\ waitResult = "none"
    \* idle: Stage::run of one stage (core/stage.rs)
    /\ srControl = << >> /\ srPc = "none" /\ srCalls = 0 /\ srLast = "none" /\ srResult = "none" /\ srTaken = 0
    \* idle: build_all, connect_stages and start_all over the configured entries (pipeline.rs)
    /\ enConfig = << >> /\ enPipelines = << >> /\ enNames = << >> /\ enStages = << >> /\ enPhase = "none" /\ enIdx = 0 /\ enHandles = << >> /\ enTasks = << >>
    \* idle: process of a stage with several inputs (fusion.rs, rule.rs, scale.rs, output/mqtt.rs)
    /\ miKind = "none" /\ miOrder = << >> /\ miArrived = << >> /\ miProcessed = << >> /\ miPos = 0 /\ miLast = "none"
    \* idle: calls of register_processor and create_processor by the application (factory.rs)
    /\ faRegistered = << >> /\ faLast = << >>

\* connect_stages, first pass: try the next stage of all_stages, defer it on Err
ConnectFirstPass ==
    /\ phase = "first"
    /\ idx <= Len(order)
    /\ LET n == order[idx]
           r == TryConnectStage(registry, stages, n, config[n])
       IN  /\ registry' = r.registry
           /\ stages' = r.stages
           /\ phase' = IF r.result = "panic" THEN "panic" ELSE phase
           /\ deferred' = IF r.result = "err" THEN Append(deferred, n) ELSE deferred
    /\ idx' = idx + 1
    /\ tries' = tries + 1
    /\ UNCHANGED <<config, order, newDeferred, progress, errNames, run, firstRun>>
    /\ UNCHANGED <<chanVars, runVars, timeVars, buildVars, validVars, lockVars, joinVars, stageVars, entryVars, multiVars, factoryVars>>

\* connect_stages calls resolve_deferred_stages(deferred_stages)
ConnectResolveCall ==
    /\ phase = "first"
    /\ idx > Len(order)
    /\ phase' = "resolve"
    /\ idx' = 0
    /\ progress' = TRUE
    /\ UNCHANGED <<config, order, stages, registry, deferred, newDeferred, errNames,
                   tries, run, firstRun>>
    /\ UNCHANGED <<chanVars, runVars, timeVars, buildVars, validVars, lockVars, joinVars, stageVars, entryVars, multiVars, factoryVars>>

\* mutant of ResolveLoopHead: the loop goes on while stages are deferred,
\* whether or not the last pass made progress
ResolveLoopHeadNoProgressTest ==
    /\ phase = "resolve"
    /\ idx = 0
    /\ IF deferred # << >>
       THEN /\ progress' = FALSE
            /\ newDeferred' = << >>
            /\ idx' = 1
            /\ UNCHANGED <<phase, errNames>>
       ELSE /\ phase' = "ok"
            /\ errNames' = deferred
            /\ UNCHANGED <<progress, newDeferred, idx>>
    /\ UNCHANGED <<config, order, stages, registry, deferred, tries, run, firstRun>>
    /\ UNCHANGED <<chanVars, runVars, timeVars, buildVars, validVars, lockVars, joinVars, stageVars, entryVars, multiVars, factoryVars>>

\* resolve_deferred_stages: the test of the while loop, and what follows the loop
ResolveLoopHead ==
    /\ phase = "resolve"
    /\ idx = 0
    /\ IF deferred # << >> /\ progress
       THEN /\ progress' = FALSE
            /\ newDeferred' = << >>
            /\ idx' = 1
            /\ UNCHANGED <<phase, errNames>>
       ELSE /\ phase' = IF deferred # << >> THEN "err" ELSE "ok"
            /\ errNames' = deferred
            /\ UNCHANGED <<progress, newDeferred, idx>>
    /\ UNCHANGED <<config, order, stages, registry, deferred, tries, run, firstRun>>
    /\ UNCHANGED <<chanVars, runVars, timeVars, buildVars, validVars, lockVars, joinVars, stageVars, entryVars, multiVars, factoryVars>>

\* mutant of ResolveTry: progress_made is not set when a stage is wired
ResolveTryNoProgress ==
    /\ phase = "resolve"
    /\ idx >= 1
    /\ idx <= Len(deferred)
    /\ LET n == deferred[idx]
           r == TryConnectStage(registry, stages, n, config[n])
       IN  /\ registry' = r.registry
           /\ stages' = r.stages
           /\ phase' = IF r.result = "panic" THEN "panic" ELSE phase
           /\ newDeferred' = IF r.result = "err" THEN Append(newDeferred, n) ELSE newDeferred
    /\ idx' = idx + 1
    /\ tries' = tries + 1
    /\ UNCHANGED <<config, order, deferred, progress, errNames, run, firstRun>>
    /\ UNCHANGED <<chanVars, runVars, timeVars, buildVars, validVars, lockVars, joinVars, stageVars, entryVars, multiVars, factoryVars>>

\* resolve_deferred_stages: the body of the for loop
ResolveTry ==
    /\ phase = "resolve"
    /\ idx >= 1
    /\ idx <= Len(deferred)
    /\ LET n == deferred[idx]
           r == TryConnectStage(registry, stages, n, config[n])
       IN  /\ registry' = r.registry
           /\ stages' = r.stages
           /\ phase' = IF r.result = "panic" THEN "panic" ELSE phase
           /\ newDeferred' = IF r.result = "err" THEN Append(newDeferred, n) ELSE newDeferred
           /\ progress' = IF r.result = "ok" THEN TRUE ELSE progress
    /\ idx' = idx + 1
    /\ tries' = tries + 1
    /\ UNCHANGED <<config, order, deferred, errNames, run, firstRun>>
    /\ UNCHANGED <<chanVars, runVars, timeVars, buildVars, validVars, lockVars, joinVars, stageVars, entryVars, multiVars, factoryVars>>

\* resolve_deferred_stages: deferred_stages = new_deferred_stages
ResolvePassEnd ==
    /\ phase = "resolve"
    /\ idx > Len(deferred)
    /\ deferred' = newDeferred
    /\ idx' = 0
    /\ UNCHANGED <<config, order, stages, registry, phase, newDeferred, progress,
                   errNames, tries, run, firstRun>>
    /\ UNCHANGED <<chanVars, runVars, timeVars, buildVars, validVars, lockVars, joinVars, stageVars, entryVars, multiVars, factoryVars>>

ConnectReturned == phase \in {"ok", "err", "panic"}

\* what connect_stages left behind: its result, the wiring of every stage and
\* the stages the error names
Outcome ==
    [phase |-> phase,
     wiring |-> [n \in DOMAIN stages |->
                    [inputs |-> DOMAIN stages[n].inputs, output |-> stages[n].output]],
     stuck |-> {errNames[i] : i \in 1..Len(errNames)}]

\* the same configuration is built and connected again, its pipeline stages
\* coming out of the HashMap in the opposite order
ConnectAgain ==
    /\ ConnectReturned
    /\ run = 1
    /\ run' = 2
    /\ firstRun' = Outcome
    /\ ConnectEntry(config, GetAllStageConfigs(config,
                        Reverse(SelectIn(order, TransformStages))))
    /\ UNCHANGED config
    /\ UNCHANGED <<chanVars, runVars, timeVars, buildVars, validVars, lockVars, joinVars, stageVars, entryVars, multiVars, factoryVars>>

ConnectNext ==
    \/ ConnectFirstPass
    \/ ConnectResolveCall
    \/ ResolveLoopHead
    \/ ResolveTry
    \/ ResolvePassEnd
    \/ ConnectAgain

ConnectSpec == ConnectInit /\ [][ConnectNext]_vars

(***************************************************************************)
(* Stage tasks: Stage::run (stage.rs) around Processor::process, started   *)
(* by start_all and awaited by wait_for_all (pipeline.rs).  The pipeline   *)
(* is  src --a--> fusion --b--> sink : a simulated input stage and two     *)
(* stages running the fusion processor, the second without an output.      *)
(***************************************************************************)
RunStages == {"src", "fusion", "sink"}

\* ControlMessage::Terminate
Terminate == <<"terminate", 0>>

\* capacity of the control channel made by build_all
ControlCapacity == 128

RunInput(s) ==
    CASE s = "src" -> NoStream [] s = "fusion" -> "a" [] s = "sink" -> "b" [] s = "file" -> "b"

RunOutput(s) ==
    CASE s = "src" -> "a" [] s = "fusion" -> "b" [] s = "sink" -> NoStream [] s = "file" -> NoStream

\* a process() future that has just been created
ProcessStart(s) ==
    [at |-> CASE s = "src" -> "sleep" [] s = "file" -> "poll" [] OTHER -> "recv", call |-> Idle]

\* the process() future of a stage that left its run loop was dropped
Dropped == [at |-> "dropped", call |-> Idle]

RECURSIVE SubscribeAll(_, _)
SubscribeAll(ch, S) ==
    IF S = {} THEN ch
    ELSE LET h == CHOOSE x \in S : TRUE
         IN  SubscribeAll(BroadcastSubscribe(ch, h).chan, S \ {h})

\* the state start_all leaves: every stage wired, subscribed to the control
\* channel, and its task spawned
RunInit ==
    /\ \E ka \in Kinds, kb \in Kinds, c \in 1..MaxCap :
          streams = [x \in {"a", "b"} |->
                        IF x = "a" THEN ChannelSubscribe(NewChannel(ka, c), "fusion").chan
                                   ELSE ChannelSubscribe(NewChannel(kb, c), "sink").chan]
    /\ controlCh = SubscribeAll(NewChannel("Broadcast", ControlCapacity), RunStages)
    /\ task = [s \in RunStages |-> "running"]
    /\ proc = [s \in RunStages |-> ProcessStart(s)]
    /\ ctrlc = "armed"
    /\ joined = FALSE
    /\ emitted = 0
    /\ blockedAtTerm = [s \in RunStages |-> "-"]
    /\ startPhase = "started"
    /\ startOrder = <<"src", "fusion", "sink">>
    /\ startIdx = 4
    /\ startStep = 1
    /\ initCalls = [s \in RunStages |-> 1]
    /\ initSaw = [s \in RunStages |-> {"control"}]
    \* the channel under test is not in use
    /\ channel = << >> /\ prod = << >> /\ sent = << >> /\ got = << >>
    /\ subscribed = {} /\ panicked = {} /\ attachedAt = << >> /\ completed = << >>
    \* the stage-graph builder is not running
    /\ config = << >> /\ order = << >> /\ stages = << >> /\ registry = << >>
    /\ phase = "idle" /\ idx = 0 /\ deferred = << >> /\ newDeferred = << >>
    /\ progress = FALSE /\ errNames = << >> /\ tries = 0 /\ run = 0 /\ firstRun = << >>
    \* no timing function is applied
    /\ tmsg = << >> /\ tcfg = << >> /\ now = 0 /\ now2 = 0 /\ tout = << >>
    /\ wmgr = << >> /\ arrivals = 0 /\ attached = << >> /\ scenario = 0
    \* idle: processor factory, build_all and the input stages (factory.rs, pipeline.rs, processors/input)
    /\ processorRegistry = << >> /\ defaultsInstalled = 0 /\ stageConfigs = << >> /\ built = << >> /\ buildPhase = "none" /\ buildBatch = 0 /\ buildErr = "" /\ outbox = << >>
    \* idle: validate_config (config/validation.rs)
    /\ vconfig = << >> /\ vresult = << >>
    \* idle: locks a stage task holds (pipeline.rs, mqtt.rs, channel.rs)
    /\ lkConfig = << >> /\ lkPc = "none" /\ lkHeld = {} /\ lkIdx = 0 /\ lkBuf = << >> /\ lkEmitted = 0
    \* idle: wait_for_all has not returned (pipeline.rs)
    /\ waitResult = "none"
    \* idle: Stage::run of one stage (core/stage.rs)
    /\ srControl = << >> /\ srPc = "none" /\ srCalls = 0 /\ srLast = "none" /\ srResult = "none" /\ srTaken = 0
    \* idle: build_all, connect_stages and start_all over the configured entries (pipeline.rs)
    /\ enConfig = << >> /\ enPipelines = << >> /\ enNames = << >> /\ enStages = << >> /\ enPhase = "none" /\ enIdx = 0 /\ enHandles = << >> /\ enTasks = << >>
    \* idle: process of a stage with several inputs (fusion.rs, rule.rs, scale.rs, output/mqtt.rs)
    /\ miKind = "none" /\ miOrder = << >> /\ miArrived = << >> /\ miProcessed = << >> /\ miPos = 0 /\ miLast = "none"
    \* idle: calls of register_processor and create_processor by the application (factory.rs)
    /\ faRegistered = << >> /\ faLast = << >>

\* SimulatedSignalProcessor::process: the sleep elapses, the message is built
\* and publish is called
SimulatedTick ==
    /\ task["src"] = "running"
    /\ proc["src"].at = "sleep"
    /\ emitted < MaxEmit
    /\ emitted' = emitted + 1
    /\ proc' = [proc EXCEPT !["src"] =
                   [at |-> "publish",
                    call |-> PublishCall(streams["a"], <<"src", emitted + 1>>)]]
    /\ UNCHANGED <<streams, controlCh, task, ctrlc, joined, blockedAtTerm>>
    /\ UNCHANGED <<chanVars, connVars, bootVars, timeVars, buildVars, validVars, lockVars, joinVars, stageVars, entryVars, multiVars, factoryVars>>

\* the send awaited inside output.channel.publish(message).await completes;
\* its result is ignored and process() returns Ok
ProcessPublish(s) ==
    /\ task[s] = "running"
    /\ proc[s].at = "publish"
    /\ ChannelCanSend(streams[RunOutput(s)], proc[s].call)
    /\ LET r == ChannelSend(streams[RunOutput(s)], proc[s].call)
       IN  /\ streams' = [streams EXCEPT ![RunOutput(s)] = r.chan]
           /\ proc' = [proc EXCEPT ![s] =
                          IF r.result = "pending"
                          THEN [at |-> "publish", call |-> r.call]
                          ELSE ProcessStart(s)]
    /\ UNCHANGED <<controlCh, task, ctrlc, joined, emitted, blockedAtTerm>>
    /\ UNCHANGED <<chanVars, connVars, bootVars, timeVars, buildVars, validVars, lockVars, joinVars, stageVars, entryVars, multiVars, factoryVars>>

\* FusionStage::process: input.recv().await returns; Some(message) is
\* published when the stage has an output
FusionRecv(s) ==
    /\ s \in {"fusion", "sink"}
    /\ task[s] = "running"
    /\ proc[s].at = "recv"
    /\ SubscriberCanRecv(streams[RunInput(s)], s)
    /\ LET r == SubscriberRecv(streams[RunInput(s)], s)
       IN  /\ streams' = [streams EXCEPT ![RunInput(s)] = r.chan]
           /\ proc' = [proc EXCEPT ![s] =
                          IF r.value # None /\ RunOutput(s) # NoStream
                          THEN [at |-> "publish",
                                call |-> PublishCall(streams[RunOutput(s)], r.value)]
                          ELSE ProcessStart(s)]
    /\ UNCHANGED <<controlCh, task, ctrlc, joined, emitted, blockedAtTerm>>
    /\ UNCHANGED <<chanVars, connVars, bootVars, timeVars, buildVars, validVars, lockVars, joinVars, stageVars, entryVars, multiVars, factoryVars>>

BlockedInRecv(s) ==
    /\ task[s] = "running"
    /\ proc[s].at = "recv"
    /\ ~SubscriberCanRecv(streams[RunInput(s)], s)

BlockedInPublish(s) ==
    /\ task[s] = "running"
    /\ proc[s].at = "publish"
    /\ ~ChannelCanSend(streams[RunOutput(s)], proc[s].call)

\* wait_for_all: the Ctrl-C task sends Terminate on the control channel
SendTerminate ==
    /\ ctrlc = "armed"
    /\ controlCh' = BroadcastSend(controlCh, PublishCall(controlCh, Terminate)).chan
    /\ ctrlc' = "sent"
    /\ blockedAtTerm' = [s \in DOMAIN task |->
                            IF BlockedInRecv(s) THEN "recv"
                            ELSE IF BlockedInPublish(s) THEN "publish" ELSE "-"]
    /\ UNCHANGED <<streams, task, proc, joined, emitted>>
    /\ UNCHANGED <<chanVars, connVars, bootVars, timeVars, buildVars, validVars, lockVars, joinVars, stageVars, entryVars, multiVars, factoryVars>>

\* mutant of StageTerminate: the control branch is taken only when process()
\* is not waiting on a channel
StageTerminateUnlessBlocked(s) ==
    /\ task[s] = "running"
    /\ ~BlockedInRecv(s)
    /\ ~BlockedInPublish(s)
    /\ SubscriberCanRecv(controlCh, s)
    /\ LET r == BroadcastRecv(controlCh, s)
       IN  /\ controlCh' = r.chan
           /\ task' = IF r.value = Terminate THEN [task EXCEPT ![s] = "exited"] ELSE task
           /\ proc' = IF r.value = Terminate THEN [proc EXCEPT ![s] = Dropped] ELSE proc
    /\ UNCHANGED <<streams, ctrlc, joined, emitted, blockedAtTerm>>
    /\ UNCHANGED <<chanVars, connVars, bootVars, timeVars, buildVars, validVars, lockVars, joinVars, stageVars, entryVars, multiVars, factoryVars>>

\* Stage::run: the control branch of select! completes with Some(Terminate):
\* the process() future is dropped wherever it is and the loop is left
StageTerminate(s) ==
    /\ task[s] = "running"
    /\ SubscriberCanRecv(controlCh, s)
    /\ LET r == BroadcastRecv(controlCh, s)
       IN  /\ controlCh' = r.chan
           /\ task' = IF r.value = Terminate THEN [task EXCEPT ![s] = "exited"] ELSE task
           /\ proc' = IF r.value = Terminate THEN [proc EXCEPT ![s] = Dropped] ELSE proc
    /\ UNCHANGED <<streams, ctrlc, joined, emitted, blockedAtTerm>>
    /\ UNCHANGED <<chanVars, connVars, bootVars, timeVars, buildVars, validVars, lockVars, joinVars, stageVars, entryVars, multiVars, factoryVars>>

\* the ways a stage task ends: Stage::run returned Ok (Terminate) or the
\* error of process, or the task panicked
Ended == {"exited", "failed", "panicked"}

\* try_join_all instead of join_all: the join is over, with the error, as
\* soon as one handle yields a JoinError
JoinAllAbortsOnPanic ==
    /\ startPhase = "started"
    /\ ~joined
    /\ \/ \A s \in DOMAIN task : task[s] \in Ended
       \/ \E s \in DOMAIN task : task[s] = "panicked"
    /\ joined' = TRUE
    /\ waitResult' = IF \E s \in DOMAIN task : task[s] = "panicked" THEN "Err" ELSE "Ok"
    /\ UNCHANGED <<streams, controlCh, task, proc, ctrlc, emitted, blockedAtTerm>>
    /\ UNCHANGED <<chanVars, connVars, bootVars, timeVars, buildVars, validVars, lockVars, stageVars, entryVars, multiVars, factoryVars>>

\* wait_for_all: join_all(handles) completes when every handle has yielded
\* its result or its JoinError; the results are not looked at and
\* wait_for_all returns Ok(())
JoinAll ==
    /\ startPhase = "started"
    /\ ~joined
    /\ \A s \in DOMAIN task : task[s] \in Ended
    /\ joined' = TRUE
    /\ waitResult' = "Ok"
    /\ UNCHANGED <<streams, controlCh, task, proc, ctrlc, emitted, blockedAtTerm>>
    /\ UNCHANGED <<chanVars, connVars, bootVars, timeVars, buildVars, validVars, lockVars, stageVars, entryVars, multiVars, factoryVars>>

RunNext ==
    \/ SimulatedTick
    \/ \E s \in RunStages : ProcessPublish(s)
    \/ \E s \in RunStages : FusionRecv(s)
    \/ SendTerminate
    \/ \E s \in RunStages : StageTerminate(s)
    \/ JoinAll

\* select! polls the control branch whenever the task is polled, and the
\* broadcast send wakes every waiting receiver: a pending Terminate is taken.
\* join_all is polled when a task finishes.  Nothing obliges Ctrl-C to come or
\* a processor to make progress.
RunFairness ==
    /\ \A s \in RunStages : WF_vars(StageTerminate(s))
    /\ WF_vars(JoinAll)

RunSpec == RunInit /\ [][RunNext]_vars /\ RunFairness

(***************************************************************************)
(* Startup: PipelineManager::start_all (pipeline.rs) run on the wired      *)
(* pipeline  src --a--> fusion --b--> {sink, file} , where file is a file  *)
(* output stage (output/file.rs): its init() opens the file and may fail,  *)
(* its process() writes what it receives and fails when a write fails.     *)
(* The stage tasks run as above from the moment they are spawned.          *)
(***************************************************************************)
StartStages == RunStages \cup {"file"}

\* the orders get_all_stage_configs can yield: inputs, pipeline stages,
\* outputs, the outputs in HashMap iteration order
StartOrders == {<<"src", "fusion", "sink", "file">>, <<"src", "fusion", "file", "sink">>}

\* the stages whose init() can return an error (FileOutputProcessor::open_file)
InitCanFail == {"file"}

\* mutant of StartSteps: the task is spawned before init() is called
StartStepsSpawnFirst == <<"attach", "spawn", "init">>

\* the body of the loop of start_all: attach the control subscriber, call
\* init(), spawn the task
StartSteps == <<"attach", "init", "spawn">>

\* the task of a stage that was not spawned
NotStarted == [at |-> "unspawned", call |-> Idle]

\* Subscriber::try_recv: Ok(msg) => Some(msg), any error => None
SubscriberTryRecv(ch, h) ==
    IF SubscriberCanRecv(ch, h) THEN SubscriberRecv(ch, h) ELSE [value |-> None, chan |-> ch]

\* the state connect_stages leaves, at the entry of start_all
StartInit ==
    /\ \E ka \in {"Broadcast", "Direct"}, kb \in Kinds \ {"Direct"}, c \in 1..MaxCap,
          readers \in {<<"sink", "file">>, <<"file", "sink">>} :
          streams = [x \in {"a", "b"} |->
                        IF x = "a"
                        THEN ChannelSubscribe(NewChannel(ka, c), "fusion").chan
                        ELSE ChannelSubscribe(
                                 ChannelSubscribe(NewChannel(kb, c), readers[1]).chan,
                                 readers[2]).chan]
    /\ controlCh = NewChannel("Broadcast", ControlCapacity)
    /\ task = [s \in StartStages |-> "unspawned"]
    /\ proc = [s \in StartStages |-> NotStarted]
    /\ ctrlc = "idle"
    /\ joined = FALSE
    /\ emitted = 0
    /\ blockedAtTerm = [s \in StartStages |-> "-"]
    /\ startPhase = "starting"
    /\ startOrder \in StartOrders
    /\ startIdx = 1
    /\ startStep = 1
    /\ initCalls = [s \in StartStages |-> 0]
    /\ initSaw = [s \in StartStages |-> {}]
    \* the channel under test is not in use
    /\ channel = << >> /\ prod = << >> /\ sent = << >> /\ got = << >>
    /\ subscribed = {} /\ panicked = {} /\ attachedAt = << >> /\ completed = << >>
    \* the stage-graph builder is not running
    /\ config = << >> /\ order = << >> /\ stages = << >> /\ registry = << >>
    /\ phase = "idle" /\ idx = 0 /\ deferred = << >> /\ newDeferred = << >>
    /\ progress = FALSE /\ errNames = << >> /\ tries = 0 /\ run = 0 /\ firstRun = << >>
    \* no timing function is applied
    /\ tmsg = << >> /\ tcfg = << >> /\ now = 0 /\ now2 = 0 /\ tout = << >>
    /\ wmgr = << >> /\ arrivals = 0 /\ attached = << >> /\ scenario = 0
    \* idle: processor factory, build_all and the input stages (factory.rs, pipeline.rs, processors/input)
    /\ processorRegistry = << >> /\ defaultsInstalled = 0 /\ stageConfigs = << >> /\ built = << >> /\ buildPhase = "none" /\ buildBatch = 0 /\ buildErr = "" /\ outbox = << >>
    \* idle: validate_config (config/validation.rs)
    /\ vconfig = << >> /\ vresult = << >>
    \* idle: locks a stage task holds (pipeline.rs, mqtt.rs, channel.rs)
    /\ lkConfig = << >> /\ lkPc = "none" /\ lkHeld = {} /\ lkIdx = 0 /\ lkBuf = << >> /\ lkEmitted = 0
    \* idle: wait_for_all has not returned (pipeline.rs)
    /\ waitResult = "none"
    \* idle: Stage::run of one stage (core/stage.rs)
    /\ srControl = << >> /\ srPc = "none" /\ srCalls = 0 /\ srLast = "none" /\ srResult = "none" /\ srTaken = 0
    \* idle: build_all, connect_stages and start_all over the configured entries (pipeline.rs)
    /\ enConfig = << >> /\ enPipelines = << >> /\ enNames = << >> /\ enStages = << >> /\ enPhase = "none" /\ enIdx = 0 /\ enHandles = << >> /\ enTasks = << >>
    \* idle: process of a stage with several inputs (fusion.rs, rule.rs, scale.rs, output/mqtt.rs)
    /\ miKind = "none" /\ miOrder = << >> /\ miArrived = << >> /\ miProcessed = << >> /\ miPos = 0 /\ miLast = "none"
    \* idle: calls of register_processor and create_processor by the application (factory.rs)
    /\ faRegistered = << >> /\ faLast = << >>

\* start_all is at step st of the body of its loop
StartAt(st) ==
    /\ startPhase = "starting"
    /\ startIdx <= Len(startOrder)
    /\ StartSteps[startStep] = st

\* start_all moves to the next step, or to the next stage
StartAdvance ==
    IF startStep = Len(StartSteps)
    THEN startIdx' = startIdx + 1 /\ startStep' = 1
    ELSE startStep' = startStep + 1 /\ UNCHANGED startIdx

\* stage.attach_control_channel(control_channel.subscribe())
StartAttach ==
    /\ StartAt("attach")
    /\ controlCh' = BroadcastSubscribe(controlCh, startOrder[startIdx]).chan
    /\ StartAdvance
    /\ UNCHANGED <<streams, task, proc, ctrlc, joined, emitted, blockedAtTerm>>
    /\ UNCHANGED <<startPhase, startOrder, initCalls, initSaw>>
    /\ UNCHANGED <<chanVars, connVars, timeVars, buildVars, validVars, lockVars, joinVars, stageVars, entryVars, multiVars, factoryVars>>

\* what is attached to stage s
AttachedTo(s) ==
    (IF s \in DOMAIN controlCh.next THEN {"control"} ELSE {})
    \cup (IF RunInput(s) # NoStream /\ s \in streams[RunInput(s)].handles
          THEN {"input"} ELSE {})

\* stage.init().await returns Ok
StartInitOk ==
    /\ StartAt("init")
    /\ initCalls' = [initCalls EXCEPT ![startOrder[startIdx]] = @ + 1]
    /\ initSaw' = [initSaw EXCEPT ![startOrder[startIdx]] = AttachedTo(startOrder[startIdx])]
    /\ StartAdvance
    /\ UNCHANGED <<streams, controlCh, task, proc, ctrlc, joined, emitted, blockedAtTerm>>
    /\ UNCHANGED <<startPhase, startOrder>>
    /\ UNCHANGED <<chanVars, connVars, timeVars, buildVars, validVars, lockVars, joinVars, stageVars, entryVars, multiVars, factoryVars>>

\* stage.init().await? returns the error: start_all returns it, dropping the
\* manager with its join handles (the tasks are detached, not aborted) and the
\* control sender
StartInitErr ==
    /\ StartAt("init")
    /\ startOrder[startIdx] \in InitCanFail
    /\ initCalls' = [initCalls EXCEPT ![startOrder[startIdx]] = @ + 1]
    /\ initSaw' = [initSaw EXCEPT ![startOrder[startIdx]] = AttachedTo(startOrder[startIdx])]
    /\ startPhase' = "failed"
    /\ UNCHANGED <<streams, controlCh, task, proc, ctrlc, joined, emitted, blockedAtTerm>>
    /\ UNCHANGED <<startOrder, startIdx, startStep>>
    /\ UNCHANGED <<chanVars, connVars, timeVars, buildVars, validVars, lockVars, joinVars, stageVars, entryVars, multiVars, factoryVars>>

\* tokio::spawn of the task that runs stage.run()
StartSpawn ==
    /\ StartAt("spawn")
    /\ task' = [task EXCEPT ![startOrder[startIdx]] = "running"]
    /\ proc' = [proc EXCEPT ![startOrder[startIdx]] = ProcessStart(startOrder[startIdx])]
    /\ StartAdvance
    /\ UNCHANGED <<streams, controlCh, ctrlc, joined, emitted, blockedAtTerm>>
    /\ UNCHANGED <<startPhase, startOrder, initCalls, initSaw>>
    /\ UNCHANGED <<chanVars, connVars, timeVars, buildVars, validVars, lockVars, joinVars, stageVars, entryVars, multiVars, factoryVars>>

\* start_all returns Ok and wait_for_all is called
StartReturn ==
    /\ startPhase = "starting"
    /\ startIdx > Len(startOrder)
    /\ startPhase' = "started"
    /\ ctrlc' = "armed"
    /\ UNCHANGED <<streams, controlCh, task, proc, joined, emitted, blockedAtTerm>>
    /\ UNCHANGED <<startOrder, startIdx, startStep, initCalls, initSaw>>
    /\ UNCHANGED <<chanVars, connVars, timeVars, buildVars, validVars, lockVars, joinVars, stageVars, entryVars, multiVars, factoryVars>>

\* FileOutputProcessor::process: a message is taken with try_recv and written
FileWrite ==
    /\ task["file"] = "running"
    /\ SubscriberCanRecv(streams["b"], "file")
    /\ streams' = [streams EXCEPT !["b"] = SubscriberTryRecv(streams["b"], "file").chan]
    /\ UNCHANGED <<controlCh, task, proc, ctrlc, joined, emitted, blockedAtTerm>>
    /\ UNCHANGED <<chanVars, connVars, bootVars, timeVars, buildVars, validVars, lockVars, joinVars, stageVars, entryVars, multiVars, factoryVars>>

\* FileOutputProcessor::process: write_message fails, process returns the
\* error, Stage::run returns it and the task ends
FileWriteErr ==
    /\ task["file"] = "running"
    /\ SubscriberCanRecv(streams["b"], "file")
    /\ LET r == SubscriberTryRecv(streams["b"], "file")
       IN  /\ r.value # None
           /\ streams' = [streams EXCEPT !["b"] = r.chan]
    /\ task' = [task EXCEPT !["file"] = "failed"]
    /\ proc' = [proc EXCEPT !["file"] = Dropped]
    /\ UNCHANGED <<controlCh, ctrlc, joined, emitted, blockedAtTerm>>
    /\ UNCHANGED <<chanVars, connVars, bootVars, timeVars, buildVars, validVars, lockVars, joinVars, stageVars, entryVars, multiVars, factoryVars>>

\* SimulatedSignalProcessor::process panics building its message:
\* Message::new_with_event_time unwraps duration_since(UNIX_EPOCH), which is
\* an error when the clock reads a time before the epoch.  The task ends and
\* its handle yields a JoinError
SimulatedPanic ==
    /\ task["src"] = "running"
    /\ proc["src"].at = "sleep"
    /\ task' = [task EXCEPT !["src"] = "panicked"]
    /\ proc' = [proc EXCEPT !["src"] = Dropped]
    /\ UNCHANGED <<streams, controlCh, ctrlc, joined, emitted, blockedAtTerm>>
    /\ UNCHANGED <<chanVars, connVars, bootVars, timeVars, buildVars, validVars, lockVars, joinVars, stageVars, entryVars, multiVars, factoryVars>>

StartNext ==
    \/ StartAttach
    \/ StartInitOk
    \/ StartInitErr
    \/ StartSpawn
    \/ StartReturn
    \/ FileWrite
    \/ FileWriteErr
    \/ StageTerminate("file")
    \/ RunNext

StartSpec == StartInit /\ [][StartNext]_vars

(***************************************************************************)
(* wait_for_all over the tasks start_all spawned for the pipeline          *)
(*   src --a--> fusion --b--> {sink, file}                                  *)
(***************************************************************************)
\* the state start_all leaves when it returns Ok: every stage attached to the
\* control channel, initialised and spawned; wait_for_all is entered
JoinInit ==
    /\ \E ka \in {"Broadcast", "Direct"}, kb \in {"Broadcast", "Fanout"}, c \in 1..MaxCap :
          streams = [x \in {"a", "b"} |->
                        IF x = "a"
                        THEN ChannelSubscribe(NewChannel(ka, c), "fusion").chan
                        ELSE ChannelSubscribe(
                                 ChannelSubscribe(NewChannel(kb, c), "sink").chan,
                                 "file").chan]
    /\ controlCh = SubscribeAll(NewChannel("Broadcast", ControlCapacity), StartStages)
    /\ task = [s \in StartStages |-> "running"]
    /\ proc = [s \in StartStages |-> ProcessStart(s)]
    /\ ctrlc = "armed"
    /\ joined = FALSE
    /\ emitted = 0
    /\ blockedAtTerm = [s \in StartStages |-> "-"]
    /\ startPhase = "started"
    /\ startOrder = <<"src", "fusion", "sink", "file">>
    /\ startIdx = 5
    /\ startStep = 1
    /\ initCalls = [s \in StartStages |-> 1]
    /\ initSaw = [s \in StartStages |-> AttachedTo(s)]
    \* the channel under test is not in use
    /\ channel = << >> /\ prod = << >> /\ sent = << >> /\ got = << >>
    /\ subscribed = {} /\ panicked = {} /\ attachedAt = << >> /\ completed = << >>
    \* the stage-graph builder is not running
    /\ config = << >> /\ order = << >> /\ stages = << >> /\ registry = << >>
    /\ phase = "idle" /\ idx = 0 /\ deferred = << >> /\ newDeferred = << >>
    /\ progress = FALSE /\ errNames = << >> /\ tries = 0 /\ run = 0 /\ firstRun = << >>
    \* no timing function is applied
    /\ tmsg = << >> /\ tcfg = << >> /\ now = 0 /\ now2 = 0 /\ tout = << >>
    /\ wmgr = << >> /\ arrivals = 0 /\ attached = << >> /\ scenario = 0
    \* idle: processor factory, build_all and the input stages (factory.rs, pipeline.rs, processors/input)
    /\ processorRegistry = << >> /\ defaultsInstalled = 0 /\ stageConfigs = << >> /\ built = << >> /\ buildPhase = "none" /\ buildBatch = 0 /\ buildErr = "" /\ outbox = << >>
    \* idle: validate_config (config/validation.rs)
    /\ vconfig = << >> /\ vresult = << >>
    \* idle: locks a stage task holds (pipeline.rs, mqtt.rs, channel.rs)
    /\ lkConfig = << >> /\ lkPc = "none" /\ lkHeld = {} /\ lkIdx = 0 /\ lkBuf = << >> /\ lkEmitted = 0
    \* idle: wait_for_all has not returned (pipeline.rs)
    /\ waitResult = "none"
    \* idle: Stage::run of one stage (core/stage.rs)
    /\ srControl = << >> /\ srPc = "none" /\ srCalls = 0 /\ srLast = "none" /\ srResult = "none" /\ srTaken = 0
    \* idle: build_all, connect_stages and start_all over the configured entries (pipeline.rs)
    /\ enConfig = << >> /\ enPipelines = << >> /\ enNames = << >> /\ enStages = << >> /\ enPhase = "none" /\ enIdx = 0 /\ enHandles = << >> /\ enTasks = << >>
    \* idle: process of a stage with several inputs (fusion.rs, rule.rs, scale.rs, output/mqtt.rs)
    /\ miKind = "none" /\ miOrder = << >> /\ miArrived = << >> /\ miProcessed = << >> /\ miPos = 0 /\ miLast = "none"
    \* idle: calls of register_processor and create_processor by the application (factory.rs)
    /\ faRegistered = << >> /\ faLast = << >>

JoinNext ==
    \/ SimulatedPanic
    \/ FileWrite
    \/ FileWriteErr
    \/ StageTerminate("file")
    \/ RunNext

JoinSpec == JoinInit /\ [][JoinNext]_vars

(***************************************************************************)
(* Timing: TimingInfo and Message (core/message.rs), TimingHelpers         *)
(* (core/timing.rs).  A SystemTime is an integer; an Option is the empty   *)
(* sequence or a sequence of one value.                                    *)
(***************************************************************************)
NoValue == << >>
Some(x) == <<x>>
IsSome(o) == o # NoValue
Unwrap(o) == o[1]

Times == 0..MaxTime
OptTimes == {NoValue} \cup {Some(t) : t \in Times}

\* TimingInfo::now
TimingInfoNow(t) ==
    [event_time |-> t, ingestion_time |-> t, processing_deadline |-> NoValue,
     watermark |-> NoValue, sequence_id |-> NoValue, trace_id |-> NoValue]

\* TimingInfo::with_event_time: the ingestion time is the event time
WithEventTime(event_time) ==
    [event_time |-> event_time, ingestion_time |-> event_time,
     processing_deadline |-> NoValue, watermark |-> NoValue,
     sequence_id |-> NoValue, trace_id |-> NoValue]

\* mutant of ProcessingLatency: the plain difference
ProcessingLatencyUnchecked(timing) == timing.ingestion_time - timing.event_time

\* TimingInfo::processing_latency: duration_since(..).unwrap_or(ZERO)
ProcessingLatency(timing) ==
    IF timing.ingestion_time >= timing.event_time
    THEN timing.ingestion_time - timing.event_time
    ELSE 0

\* TimingInfo::is_deadline_exceeded, SystemTime::now() reading t
IsDeadlineExceeded(timing, t) ==
    IF IsSome(timing.processing_deadline)
    THEN t > Unwrap(timing.processing_deadline)
    ELSE FALSE

\* is_late with the comparison made inclusive
IsLateInclusive(timing) ==
    IF IsSome(timing.watermark)
    THEN timing.event_time <= Unwrap(timing.watermark)
    ELSE FALSE

\* TimingInfo::is_late: against the watermark the message itself carries
IsLate(timing) ==
    IF IsSome(timing.watermark)
    THEN timing.event_time < Unwrap(timing.watermark)
    ELSE FALSE

\* Message::new at time t; the legacy timestamp is the ingestion time
MessageNew(payload, t) ==
    [payload |-> payload, timestamp |-> t, timing |-> TimingInfoNow(t)]

\* Message::new_with_event_time
NewWithEventTime(payload, event_time) ==
    [payload |-> payload,
     timestamp |-> WithEventTime(event_time).ingestion_time,
     timing |-> WithEventTime(event_time)]

\* TimingHelpers::propagate_timing; Message::new reads the clock at t1, the
\* test of the deadline reads it at t2
PropagateTiming(source_message, new_payload, t1, t2) ==
    LET src == source_message.timing
        new_message == MessageNew(new_payload, t1)
        copied == [new_message.timing EXCEPT
                      !.event_time = src.event_time,
                      !.watermark = src.watermark,
                      !.sequence_id = src.sequence_id,
                      !.trace_id = src.trace_id]
    IN  [new_message EXCEPT
            !.timing = IF /\ IsSome(src.processing_deadline)
                          /\ t2 < Unwrap(src.processing_deadline)
                       THEN [copied EXCEPT
                                !.processing_deadline = src.processing_deadline]
                       ELSE copied]

\* mutant of UpdateMessageWatermark: the message's watermark is overwritten
\* also when none was emitted
UpdateMessageWatermarkAlways(message, watermark) ==
    [message EXCEPT !.timing.watermark = watermark]

\* TimingHelpers::update_message_watermark
UpdateMessageWatermark(message, watermark) ==
    IF IsSome(watermark)
    THEN [message EXCEPT !.timing.watermark = watermark]
    ELSE message

\* TimingHelpers::should_drop_message, SystemTime::now() reading t
ShouldDropMessage(message, cfg, t) ==
    IF IsDeadlineExceeded(message.timing, t) THEN TRUE
    ELSE IF IsLate(message.timing) THEN TRUE
    ELSE IF IsSome(cfg.jitter_bounds)
         THEN ProcessingLatency(message.timing) > Unwrap(cfg.jitter_bounds)
         ELSE FALSE

\* the timing metadata a message can carry
TimingInfos ==
    [event_time : Times, ingestion_time : Times,
     processing_deadline : OptTimes, watermark : OptTimes,
     sequence_id : {NoValue, Some(7)}, trace_id : {NoValue, Some("trace")}]

\* jitter_bounds: not configured, or a duration
JitterBounds == {NoValue, Some(0), Some(1)}

\* TimingConfig::default, except for the jitter bounds
DefaultTimingConfig(jitter) ==
    [watermark_strategy |-> [kind |-> "None"], max_lateness |-> 30000,
     jitter_bounds |-> jitter]

\* a message, a configuration and two successive readings of the clock
TimingInit ==
    /\ \E ti \in TimingInfos :
          tmsg = [payload |-> NoValue, timestamp |-> ti.ingestion_time, timing |-> ti]
    /\ \E j \in JitterBounds : tcfg = DefaultTimingConfig(j)
    /\ now \in Times
    /\ now2 \in Times
    /\ now <= now2
    /\ tout = << >>
    /\ wmgr = << >> /\ arrivals = 0 /\ attached = << >> /\ scenario = 0
    \* the channel under test is not in use
    /\ channel = << >> /\ prod = << >> /\ sent = << >> /\ got = << >>
    /\ subscribed = {} /\ panicked = {} /\ attachedAt = << >> /\ completed = << >>
    \* no pipeline is being connected
    /\ config = << >> /\ order = << >> /\ stages = << >> /\ registry = << >>
    /\ phase = "idle" /\ idx = 0 /\ deferred = << >> /\ newDeferred = << >>
    /\ progress = FALSE /\ errNames = << >> /\ tries = 0 /\ run = 0 /\ firstRun = << >>
    \* no stage task has been started
    /\ streams = << >> /\ controlCh = << >> /\ task = << >> /\ proc = << >>
    /\ ctrlc = "idle" /\ joined = FALSE /\ emitted = 0 /\ blockedAtTerm = << >>
    /\ startPhase = "idle" /\ startOrder = << >> /\ startIdx = 0 /\ startStep = 0
    /\ initCalls = << >> /\ initSaw = << >>
    \* idle: processor factory, build_all and the input stages (factory.rs, pipeline.rs, processors/input)
    /\ processorRegistry = << >> /\ defaultsInstalled = 0 /\ stageConfigs = << >> /\ built = << >> /\ buildPhase = "none" /\ buildBatch = 0 /\ buildErr = "" /\ outbox = << >>
    \* idle: validate_config (config/validation.rs)
    /\ vconfig = << >> /\ vresult = << >>
    \* idle: locks a stage task holds (pipeline.rs, mqtt.rs, channel.rs)
    /\ lkConfig = << >> /\ lkPc = "none" /\ lkHeld = {} /\ lkIdx = 0 /\ lkBuf = << >> /\ lkEmitted = 0
    \* idle: wait_for_all has not returned (pipeline.rs)
    /\ waitResult = "none"
    \* idle: Stage::run of one stage (core/stage.rs)
    /\ srControl = << >> /\ srPc = "none" /\ srCalls = 0 /\ srLast = "none" /\ srResult = "none" /\ srTaken = 0
    \* idle: build_all, connect_stages and start_all over the configured entries (pipeline.rs)
    /\ enConfig = << >> /\ enPipelines = << >> /\ enNames = << >> /\ enStages = << >> /\ enPhase = "none" /\ enIdx = 0 /\ enHandles = << >> /\ enTasks = << >>
    \* idle: process of a stage with several inputs (fusion.rs, rule.rs, scale.rs, output/mqtt.rs)
    /\ miKind = "none" /\ miOrder = << >> /\ miArrived = << >> /\ miProcessed = << >> /\ miPos = 0 /\ miLast = "none"
    \* idle: calls of register_processor and create_processor by the application (factory.rs)
    /\ faRegistered = << >> /\ faLast = << >>

\* should_drop_message(&tmsg, &tcfg)
ApplyShouldDrop ==
    /\ tout = << >>
    /\ tout' = [fn |-> "should_drop_message", arg |-> NoValue,
                value |-> ShouldDropMessage(tmsg, tcfg, now)]
    /\ UNCHANGED <<tmsg, tcfg, now, now2, wmgr, arrivals, attached, scenario>>
    /\ UNCHANGED <<chanVars, connVars, runVars, buildVars, validVars, lockVars, joinVars, stageVars, entryVars, multiVars, factoryVars>>

\* propagate_timing(&tmsg, ..)
ApplyPropagateTiming ==
    /\ tout = << >>
    /\ tout' = [fn |-> "propagate_timing", arg |-> NoValue,
                value |-> PropagateTiming(tmsg, NoValue, now, now2)]
    /\ UNCHANGED <<tmsg, tcfg, now, now2, wmgr, arrivals, attached, scenario>>
    /\ UNCHANGED <<chanVars, connVars, runVars, buildVars, validVars, lockVars, joinVars, stageVars, entryVars, multiVars, factoryVars>>

\* Message::new_with_event_time(.., t)
ApplyNewWithEventTime ==
    /\ tout = << >>
    /\ \E t \in Times :
          tout' = [fn |-> "new_with_event_time", arg |-> Some(t),
                   value |-> NewWithEventTime(NoValue, t)]
    /\ UNCHANGED <<tmsg, tcfg, now, now2, wmgr, arrivals, attached, scenario>>
    /\ UNCHANGED <<chanVars, connVars, runVars, buildVars, validVars, lockVars, joinVars, stageVars, entryVars, multiVars, factoryVars>>

\* tmsg.timing.processing_latency()
ApplyProcessingLatency ==
    /\ tout = << >>
    /\ tout' = [fn |-> "processing_latency", arg |-> NoValue,
                value |-> ProcessingLatency(tmsg.timing)]
    /\ UNCHANGED <<tmsg, tcfg, now, now2, wmgr, arrivals, attached, scenario>>
    /\ UNCHANGED <<chanVars, connVars, runVars, buildVars, validVars, lockVars, joinVars, stageVars, entryVars, multiVars, factoryVars>>

\* Message::new(..) at time now, and processing_latency() of its timing
ApplyMessageNew ==
    /\ tout = << >>
    /\ LET message == MessageNew(NoValue, now)
       IN  tout' = [fn |-> "new", arg |-> Some(message),
                    value |-> ProcessingLatency(message.timing)]
    /\ UNCHANGED <<tmsg, tcfg, now, now2, wmgr, arrivals, attached, scenario>>
    /\ UNCHANGED <<chanVars, connVars, runVars, buildVars, validVars, lockVars, joinVars, stageVars, entryVars, multiVars, factoryVars>>

TimingNext ==
    \/ ApplyProcessingLatency
    \/ ApplyMessageNew
    \/ ApplyShouldDrop
    \/ ApplyPropagateTiming
    \/ ApplyNewWithEventTime

TimingSpec == TimingInit /\ [][TimingNext]_vars

(***************************************************************************)
(* A timing-enabled stage: WatermarkManager (core/timing.rs), TimingMixin  *)
(* (core/timing_mixin.rs) and TimingProcessor::process_with_timing.        *)
(***************************************************************************)
\* one sample fewer than the Heuristic strategy asks for
HeuristicMinSamplesFewer == 10 - 1

\* samples the Heuristic strategy needs before it yields a watermark
HeuristicMinSamples == 10
\* the interval of the Periodic strategy
PeriodicInterval == 100

\* event times of arriving messages
EventTimes == {50, 100, 200}

\* the event times of the scenario, in order of arrival
ScenarioTimes == <<0, 100, 200, 50, 400>>

\* the watermark strategies a stage is configured with
Strategies ==
    {[kind |-> "None"],
     [kind |-> "Periodic", interval |-> PeriodicInterval],
     [kind |-> "Punctuated"],
     [kind |-> "Heuristic", percentile |-> 10]}

\* WatermarkManager::new at time t
NewWatermarkManager(t) ==
    [last_watermark |-> NoValue, last_periodic_update |-> t,
     event_timestamps |-> << >>]

\* sorted with x pushed: event_timestamps is kept in the order sort() gives
\* it, which is all update_watermark reads of it while it has at most 1000
\* entries (MaxArrivals is far below that, so remove(0) is never called)
RECURSIVE InsertSorted(_, _)
InsertSorted(sorted, x) ==
    IF sorted = << >> THEN <<x>>
    ELSE IF x <= Head(sorted) THEN <<x>> \o sorted
    ELSE <<Head(sorted)>> \o InsertSorted(Tail(sorted), x)

\* the value of the payload at the punctuation field.  NoValue: the field is
\* missing; <<n>>: a JSON integer; <<secs, millis>>: a JSON number with a
\* fraction, secs its floor and millis its fraction in thousandths;
\* <<kind, 0, 0>>: a JSON value that is no number
JsonString == <<"string", 0, 0>>
JsonBool == <<"bool", 0, 0>>
IsJsonInteger(v) == Len(v) = 1
IsJsonFloat(v) == Len(v) = 2

\* mutant of PeriodicDue: the interval must have been exceeded
PeriodicDueStrict(mgr, interval, t) ==
    (IF t >= mgr.last_periodic_update THEN t - mgr.last_periodic_update ELSE 0) > interval

\* update_watermark, Periodic: now.duration_since(last_periodic_update)
\* .unwrap_or(ZERO) >= interval
PeriodicDue(mgr, interval, t) ==
    (IF t >= mgr.last_periodic_update THEN t - mgr.last_periodic_update ELSE 0) >= interval

\* update_watermark, Periodic strategy, SystemTime::now() reading t
UpdatePeriodic(mgr, cfg, t) ==
    IF PeriodicDue(mgr, cfg.watermark_strategy.interval, t)
    THEN [mgr |-> [mgr EXCEPT !.last_periodic_update = t,
                              !.last_watermark = Some(t - cfg.max_lateness)],
          watermark |-> Some(t - cfg.max_lateness)]
    ELSE [mgr |-> mgr, watermark |-> NoValue]

\* TimingHelpers::extract_timestamp_field, in milliseconds since the epoch:
\* as_u64 takes a non-negative integer as milliseconds; any other number goes
\* through as_f64 and is read as seconds, floor and fraction cast to unsigned
\* (a negative part becomes 0); a string goes to parse_iso_timestamp, which
\* returns None; every other value gives None
ExtractTimestampField(v) ==
    CASE v = NoValue -> NoValue
      [] IsJsonInteger(v) -> IF v[1] >= 0 THEN Some(v[1]) ELSE Some(0)
      [] IsJsonFloat(v) ->
           Some((IF v[1] >= 0 THEN v[1] ELSE 0) * 1000 + (IF v[1] >= 0 THEN v[2] ELSE 0))
      [] OTHER -> NoValue

\* update_watermark, Punctuated strategy
UpdatePunctuated(mgr, cfg, message) ==
    LET watermark_value == ExtractTimestampField(message.payload)
    IN  IF IsSome(watermark_value)
        THEN LET watermark == Unwrap(watermark_value) - cfg.max_lateness
             IN  [mgr |-> [mgr EXCEPT !.last_watermark = Some(watermark)],
                  watermark |-> Some(watermark)]
        ELSE [mgr |-> mgr, watermark |-> NoValue]

\* WatermarkManager::update_watermark, SystemTime::now() reading t: the
\* manager after the call and the value returned
UpdateWatermark(mgr, cfg, message, t) ==
    LET strategy == cfg.watermark_strategy
    IN  CASE strategy.kind = "None" -> [mgr |-> mgr, watermark |-> NoValue]
          [] strategy.kind = "Periodic" -> UpdatePeriodic(mgr, cfg, t)
          [] strategy.kind = "Punctuated" -> UpdatePunctuated(mgr, cfg, message)
          [] strategy.kind = "Heuristic" ->
               LET sorted == InsertSorted(mgr.event_timestamps, message.timing.event_time)
                   index == (Len(sorted) * strategy.percentile) \div 100
               IN  IF Len(sorted) >= HeuristicMinSamples
                   THEN LET watermark ==
                                (IF index + 1 <= Len(sorted) THEN sorted[index + 1] ELSE t)
                                    - cfg.max_lateness
                        IN  [mgr |-> [mgr EXCEPT !.event_timestamps = sorted,
                                                 !.last_watermark = Some(watermark)],
                             watermark |-> Some(watermark)]
                   ELSE [mgr |-> [mgr EXCEPT !.event_timestamps = sorted],
                         watermark |-> NoValue]

\* the watermarks the stage attached: the one before the last, and the last
Attach(history, watermark) ==
    IF IsSome(watermark)
    THEN IF history = << >> THEN watermark ELSE <<history[Len(history)], Unwrap(watermark)>>
    ELSE history

\* the scenario advances when its next event time arrives in a fresh message
\* right after the part of it that has arrived
ScenarioStep(message) ==
    IF /\ scenario = arrivals
       /\ scenario < Len(ScenarioTimes)
       /\ tcfg.watermark_strategy.kind = "Punctuated"
       /\ message.timing = WithEventTime(ScenarioTimes[scenario + 1])
       /\ message.payload = Some(message.timing.event_time)
    THEN scenario + 1
    ELSE scenario

\* a stage with its TimingMixin, created at time 0
WatermarkInit ==
    /\ \E strategy \in Strategies :
          tcfg = [watermark_strategy |-> strategy, max_lateness |-> 10,
                  jitter_bounds |-> NoValue]
    /\ now = 0
    /\ now2 = 0
    /\ wmgr = NewWatermarkManager(0)
    /\ tmsg = << >>
    /\ tout = << >>
    /\ arrivals = 0
    /\ attached = << >>
    /\ scenario = 0
    \* the channel under test is not in use
    /\ channel = << >> /\ prod = << >> /\ sent = << >> /\ got = << >>
    /\ subscribed = {} /\ panicked = {} /\ attachedAt = << >> /\ completed = << >>
    \* no pipeline is being connected
    /\ config = << >> /\ order = << >> /\ stages = << >> /\ registry = << >>
    /\ phase = "idle" /\ idx = 0 /\ deferred = << >> /\ newDeferred = << >>
    /\ progress = FALSE /\ errNames = << >> /\ tries = 0 /\ run = 0 /\ firstRun = << >>
    \* no stage task has been started
    /\ streams = << >> /\ controlCh = << >> /\ task = << >> /\ proc = << >>
    /\ ctrlc = "idle" /\ joined = FALSE /\ emitted = 0 /\ blockedAtTerm = << >>
    /\ startPhase = "idle" /\ startOrder = << >> /\ startIdx = 0 /\ startStep = 0
    /\ initCalls = << >> /\ initSaw = << >>
    \* idle: processor factory, build_all and the input stages (factory.rs, pipeline.rs, processors/input)
    /\ processorRegistry = << >> /\ defaultsInstalled = 0 /\ stageConfigs = << >> /\ built = << >> /\ buildPhase = "none" /\ buildBatch = 0 /\ buildErr = "" /\ outbox = << >>
    \* idle: validate_config (config/validation.rs)
    /\ vconfig = << >> /\ vresult = << >>
    \* idle: locks a stage task holds (pipeline.rs, mqtt.rs, channel.rs)
    /\ lkConfig = << >> /\ lkPc = "none" /\ lkHeld = {} /\ lkIdx = 0 /\ lkBuf = << >> /\ lkEmitted = 0
    \* idle: wait_for_all has not returned (pipeline.rs)
    /\ waitResult = "none"
    \* idle: Stage::run of one stage (core/stage.rs)
    /\ srControl = << >> /\ srPc = "none" /\ srCalls = 0 /\ srLast = "none" /\ srResult = "none" /\ srTaken = 0
    \* idle: build_all, connect_stages and start_all over the configured entries (pipeline.rs)
    /\ enConfig = << >> /\ enPipelines = << >> /\ enNames = << >> /\ enStages = << >> /\ enPhase = "none" /\ enIdx = 0 /\ enHandles = << >> /\ enTasks = << >>
    \* idle: process of a stage with several inputs (fusion.rs, rule.rs, scale.rs, output/mqtt.rs)
    /\ miKind = "none" /\ miOrder = << >> /\ miArrived = << >> /\ miProcessed = << >> /\ miPos = 0 /\ miLast = "none"
    \* idle: calls of register_processor and create_processor by the application (factory.rs)
    /\ faRegistered = << >> /\ faLast = << >>

\* the messages that arrive: the payload has the punctuation field (holding
\* the event time) or lacks it; the message carries no watermark or the one an
\* upstream stage attached
Arriving ==
    UNION {{[payload |-> p, timestamp |-> e,
             timing |-> [WithEventTime(e) EXCEPT !.watermark = w]] :
               p \in {NoValue, Some(e)}, w \in {NoValue, Some(100)}} :
           e \in EventTimes}
    \cup
    \* and, at a Punctuated stage, the messages of the scenario in their order
    {[payload |-> Some(ScenarioTimes[i]), timestamp |-> ScenarioTimes[i],
      timing |-> WithEventTime(ScenarioTimes[i])] :
        i \in {j \in {scenario + 1} :
                  /\ scenario = arrivals
                  /\ j <= Len(ScenarioTimes)
                  /\ tcfg.watermark_strategy.kind = "Punctuated"}}

\* the time between two messages: half the interval of the Periodic strategy
ArrivalGap == PeriodicInterval \div 2

\* TimingProcessor::process_with_timing(message), ArrivalGap after the
\* previous message
ProcessWithTiming ==
    /\ arrivals < MaxArrivals
    /\ \E message \in Arriving :
          LET t == now + ArrivalGap
              updated == UpdateWatermark(wmgr, tcfg, message, t)
          IN  /\ now' = t
              /\ now2' = t
              /\ tmsg' = message
              /\ arrivals' = arrivals + 1
              /\ scenario' = ScenarioStep(message)
              /\ IF ShouldDropMessage(message, tcfg, t)
                 THEN /\ tout' = [fn |-> "process_with_timing",
                                  arg |-> wmgr.last_watermark, value |-> NoValue]
                      /\ UNCHANGED <<wmgr, attached>>
                 ELSE /\ tout' = [fn |-> "process_with_timing",
                                  arg |-> wmgr.last_watermark,
                                  value |-> Some(UpdateMessageWatermark(message,
                                                    updated.watermark))]
                      /\ wmgr' = updated.mgr
                      /\ attached' = Attach(attached, updated.watermark)
    /\ UNCHANGED tcfg
    /\ UNCHANGED <<chanVars, connVars, runVars, buildVars, validVars, lockVars, joinVars, stageVars, entryVars, multiVars, factoryVars>>

\* TimingMixin::create_message_with_timing(.., event_time) in an input
\* stage that sets no processing timeout, ArrivalGap after the previous message
CreateMessageWithTiming ==
    /\ arrivals < MaxArrivals
    /\ \E e \in EventTimes :
          LET t == now + ArrivalGap
              created == NewWithEventTime(Some(e), e)
              message == [created EXCEPT !.timing.sequence_id = Some(arrivals + 1)]
              updated == UpdateWatermark(wmgr, tcfg, message, t)
          IN  /\ now' = t
              /\ now2' = t
              /\ tmsg' = message
              /\ arrivals' = arrivals + 1
              /\ tout' = [fn |-> "create_message_with_timing",
                          arg |-> wmgr.last_watermark,
                          value |-> Some(UpdateMessageWatermark(message, updated.watermark))]
              /\ wmgr' = updated.mgr
              /\ attached' = Attach(attached, updated.watermark)
    /\ UNCHANGED <<tcfg, scenario>>
    /\ UNCHANGED <<chanVars, connVars, runVars, buildVars, validVars, lockVars, joinVars, stageVars, entryVars, multiVars, factoryVars>>

WatermarkNext ==
    \/ ProcessWithTiming
    \/ CreateMessageWithTiming

WatermarkSpec == WatermarkInit /\ [][WatermarkNext]_vars

(***************************************************************************)
(* WatermarkManager::update_watermark strategy by strategy (core/timing.rs) *)
(* with the window of the Heuristic strategy in arrival order.             *)
(***************************************************************************)
\* event times the Heuristic window keeps at most
HeuristicWindow == 1000

\* the percentiles a Heuristic strategy is configured with
Percentiles == {0, 10, 50, 90, 100}

\* the gaps between two calls under the Periodic strategy
PeriodicGaps == {40, 60, 100}

\* what the punctuation field of an arriving payload holds
PunctuationValues ==
    {NoValue, Some(50), Some(200), Some(0 - 5), <<1, 500>>, JsonString, JsonBool}

\* sorted.sort()
RECURSIVE SortedCopy(_)
SortedCopy(seq) ==
    IF seq = << >> THEN << >> ELSE InsertSorted(SortedCopy(Tail(seq)), Head(seq))

\* ((sorted.len() as f64) * percentile / 100.0) as usize, for a whole
\* percentile: the products are exact and the cast truncates
HeuristicIndex(n, percentile) == (n * percentile) \div 100

\* update_watermark, Heuristic strategy, SystemTime::now() reading t: the
\* event time is pushed, the oldest is removed beyond HeuristicWindow, and
\* from HeuristicMinSamples on the sorted copy is read at the index (or now,
\* when sorted.get(index) is None)
UpdateHeuristic(mgr, cfg, message, t) ==
    LET pushed == Append(mgr.event_timestamps, message.timing.event_time)
        window == IF Len(pushed) > HeuristicWindow THEN Tail(pushed) ELSE pushed
    IN  IF Len(window) >= HeuristicMinSamples
        THEN LET sorted == SortedCopy(window)
                 index == HeuristicIndex(Len(sorted), cfg.watermark_strategy.percentile)
                 watermark == (IF index < Len(sorted) THEN sorted[index + 1] ELSE t)
                                  - cfg.max_lateness
             IN  [mgr |-> [mgr EXCEPT !.event_timestamps = window,
                                      !.last_watermark = Some(watermark)],
                  watermark |-> Some(watermark)]
        ELSE [mgr |-> [mgr EXCEPT !.event_timestamps = window], watermark |-> NoValue]

\* a WatermarkManager created at time 0 with one of the strategies
StrategyInit ==
    /\ \E strategy \in {[kind |-> "Periodic", interval |-> PeriodicInterval],
                        [kind |-> "Punctuated"]}
                       \cup {[kind |-> "Heuristic", percentile |-> p] : p \in Percentiles} :
          tcfg = [watermark_strategy |-> strategy, max_lateness |-> 10,
                  jitter_bounds |-> NoValue]
    /\ now = 0
    /\ now2 = 0
    /\ wmgr = NewWatermarkManager(0)
    /\ tmsg = << >>
    /\ tout = << >>
    /\ arrivals = 0
    /\ attached = << >>
    /\ scenario = 0
    \* the channel under test is not in use
    /\ channel = << >> /\ prod = << >> /\ sent = << >> /\ got = << >>
    /\ subscribed = {} /\ panicked = {} /\ attachedAt = << >> /\ completed = << >>
    \* no pipeline is being connected
    /\ config = << >> /\ order = << >> /\ stages = << >> /\ registry = << >>
    /\ phase = "idle" /\ idx = 0 /\ deferred = << >> /\ newDeferred = << >>
    /\ progress = FALSE /\ errNames = << >> /\ tries = 0 /\ run = 0 /\ firstRun = << >>
    \* no stage task has been started
    /\ streams = << >> /\ controlCh = << >> /\ task = << >> /\ proc = << >>
    /\ ctrlc = "idle" /\ joined = FALSE /\ emitted = 0 /\ blockedAtTerm = << >>
    /\ startPhase = "idle" /\ startOrder = << >> /\ startIdx = 0 /\ startStep = 0
    /\ initCalls = << >> /\ initSaw = << >>
    \* idle: processor factory, build_all and the input stages (factory.rs, pipeline.rs, processors/input)
    /\ processorRegistry = << >> /\ defaultsInstalled = 0 /\ stageConfigs = << >> /\ built = << >> /\ buildPhase = "none" /\ buildBatch = 0 /\ buildErr = "" /\ outbox = << >>
    \* idle: validate_config (config/validation.rs)
    /\ vconfig = << >> /\ vresult = << >>
    \* idle: locks a stage task holds (pipeline.rs, mqtt.rs, channel.rs)
    /\ lkConfig = << >> /\ lkPc = "none" /\ lkHeld = {} /\ lkIdx = 0 /\ lkBuf = << >> /\ lkEmitted = 0
    \* idle: wait_for_all has not returned (pipeline.rs)
    /\ waitResult = "none"
    \* idle: Stage::run of one stage (core/stage.rs)
    /\ srControl = << >> /\ srPc = "none" /\ srCalls = 0 /\ srLast = "none" /\ srResult = "none" /\ srTaken = 0
    \* idle: build_all, connect_stages and start_all over the configured entries (pipeline.rs)
    /\ enConfig = << >> /\ enPipelines = << >> /\ enNames = << >> /\ enStages = << >> /\ enPhase = "none" /\ enIdx = 0 /\ enHandles = << >> /\ enTasks = << >>
    \* idle: process of a stage with several inputs (fusion.rs, rule.rs, scale.rs, output/mqtt.rs)
    /\ miKind = "none" /\ miOrder = << >> /\ miArrived = << >> /\ miProcessed = << >> /\ miPos = 0 /\ miLast = "none"
    \* idle: calls of register_processor and create_processor by the application (factory.rs)
    /\ faRegistered = << >> /\ faLast = << >>

\* update_watermark(message) at time t, and update_message_watermark with
\* what it returned
CallUpdateWatermark(message, t, updated) ==
    /\ arrivals < MaxArrivals
    /\ now' = t
    /\ tmsg' = message
    /\ arrivals' = arrivals + 1
    /\ wmgr' = updated.mgr
    /\ tout' = [fn |-> "update_watermark", arg |-> wmgr, watermark |-> updated.watermark,
                value |-> Some(UpdateMessageWatermark(message, updated.watermark))]
    /\ UNCHANGED <<tcfg, now2, attached, scenario>>
    /\ UNCHANGED <<chanVars, connVars, runVars, buildVars, validVars, lockVars, joinVars, stageVars, entryVars, multiVars, factoryVars>>

\* a call under the Periodic strategy, some time after the previous one
PeriodicCall ==
    /\ tcfg.watermark_strategy.kind = "Periodic"
    /\ \E gap \in PeriodicGaps :
          LET message == [payload |-> NoValue, timestamp |-> now + gap,
                          timing |-> WithEventTime(now + gap)]
          IN  CallUpdateWatermark(message, now + gap,
                                  UpdatePeriodic(wmgr, tcfg, now + gap))

\* a call under the Punctuated strategy: the message has anything at the
\* punctuation field, and carries a watermark or none
PunctuatedCall ==
    /\ tcfg.watermark_strategy.kind = "Punctuated"
    /\ \E v \in PunctuationValues, w \in {NoValue, Some(100)} :
          LET message == [payload |-> v, timestamp |-> 200,
                          timing |-> [WithEventTime(200) EXCEPT !.watermark = w]]
          IN  CallUpdateWatermark(message, now + ArrivalGap,
                                  UpdatePunctuated(wmgr, tcfg, message))

\* a call under the Heuristic strategy
HeuristicCall ==
    /\ tcfg.watermark_strategy.kind = "Heuristic"
    /\ \E e \in {50, 100} :
          LET message == [payload |-> NoValue, timestamp |-> e, timing |-> WithEventTime(e)]
          IN  CallUpdateWatermark(message, now + ArrivalGap,
                                  UpdateHeuristic(wmgr, tcfg, message, now + ArrivalGap))

StrategyNext ==
    \/ PeriodicCall
    \/ PunctuatedCall
    \/ HeuristicCall

StrategySpec == StrategyInit /\ [][StrategyNext]_vars

(***************************************************************************)
(* The processor factory (processors/factory.rs), build_all and            *)
(* create_stages (core/pipeline.rs, core/stage.rs) and the input stages    *)
(* that number their messages (processors/input, core/timing_mixin.rs).    *)
(***************************************************************************)
\* the built-in processors ensure_default_processors registers
DefaultProcessors ==
    {"mqtt_sub", "simulated", "lowpass", "scale", "fusion", "console", "file"}

\* a processor type registered by the application with register_processor
CustomProcessors == {"tcp"}

\* the stages a configuration declares: inputs, outputs, pipeline stages
InputNames == {"in1", "in2"}
OutputNames == {"out"}
PipelineStageNames == {"tr"}
DeclaredNames == InputNames \cup OutputNames \cup PipelineStageNames

\* build_all creates the inputs, then the outputs, then the pipeline stages
BuildBatches == <<InputNames, OutputNames, PipelineStageNames>>

\* the processor types the configurations name; "bogus" is never registered
TypesOf(n) ==
    IF n \in InputNames THEN {"simulated", "tcp", "bogus"}
    ELSE IF n \in OutputNames THEN {"console", "bogus"}
    ELSE {"scale"}

\* register_processor: an entry of the same name is replaced
RegisterProcessorIn(reg, name, constructor) ==
    (name :> constructor) @@ reg

\* ensure_default_processors: the OnceLock runs the closure on the first
\* call only; installs counts the runs of the closure
EnsureDefaultProcessors(factory) ==
    IF factory.installs = 0
    THEN [registry |-> [n \in DefaultProcessors |-> n] @@ factory.registry,
          installs |-> 1]
    ELSE factory

\* create_processor that builds a processor for a name it does not know
CreateProcessorAnyName(factory, name, cfg) ==
    LET f == EnsureDefaultProcessors(factory)
    IN  [factory |-> f,
         result |-> IF cfg.valid
                    THEN [ok |-> TRUE,
                          processor |-> [name |-> name,
                                         constructor |-> IF name \in DOMAIN f.registry
                                                         THEN f.registry[name] ELSE name,
                                         timing |-> [sequence_counter |-> 0]]]
                    ELSE [ok |-> FALSE, processor |-> << >>]]

\* create_processor(name, config): the constructor registered under name is
\* called with that same name; it rejects a configuration that is not valid
CreateProcessor(factory, name, cfg) ==
    LET f == EnsureDefaultProcessors(factory)
    IN  [factory |-> f,
         result |-> IF name \in DOMAIN f.registry /\ cfg.valid
                    THEN [ok |-> TRUE,
                          processor |-> [name |-> name,
                                         constructor |-> f.registry[name],
                                         timing |-> [sequence_counter |-> 0]]]
                    ELSE [ok |-> FALSE, processor |-> << >>]]

\* create_stage(name, config): Stage::new(name, processor), or None
CreateStage(factory, name, cfg) ==
    LET created == CreateProcessor(factory, name, cfg)
    IN  [factory |-> created.factory,
         stage |-> IF created.result.ok
                   THEN Some([name |-> name, processor |-> created.result.processor])
                   ELSE NoValue]

\* next_sequence_id that does not store the counter it returns
NextSequenceIdNotStored(timing) ==
    [timing |-> timing, id |-> timing.sequence_counter + 1]

\* TimingMixin::next_sequence_id
NextSequenceId(timing) ==
    [timing |-> [timing EXCEPT !.sequence_counter = @ + 1],
     id |-> timing.sequence_counter + 1]

\* TimingMixin::create_message_with_event_time_extraction, which calls
\* create_message_with_timing: the message gets the next sequence id
CreateMessageWithEventTimeExtraction(timing, source) ==
    LET next == NextSequenceId(timing)
    IN  [timing |-> next.timing,
         message |-> [source |-> source, sequence_id |-> Some(next.id)]]

\* Message::with_sequence_id
WithSequenceId(message, sequence_id) ==
    [message EXCEPT !.sequence_id = Some(sequence_id)]

\* the part of process of the simulated and the tcp input that builds the
\* message: next_sequence_id, then the mixin's constructor (which takes the
\* next id again), then with_sequence_id with the id taken first
BuildInputMessage(processor) ==
    LET first == NextSequenceId(processor.timing)
        made == CreateMessageWithEventTimeExtraction(first.timing, processor.name)
    IN  [processor |-> [processor EXCEPT !.timing = made.timing],
         message |-> WithSequenceId(made.message, first.id)]

\* the configurations: each stage names a type and has parameters its
\* constructor accepts or rejects
BuildInit ==
    /\ stageConfigs \in [DeclaredNames -> [type : {"simulated", "tcp", "bogus", "console", "scale"},
                                           valid : BOOLEAN]]
    /\ \A n \in DeclaredNames : stageConfigs[n].type \in TypesOf(n)
    /\ processorRegistry = << >>
    /\ defaultsInstalled = 0
    /\ built = << >>
    /\ buildPhase = "idle"
    /\ buildBatch = 0
    /\ buildErr = ""
    /\ outbox = [n \in InputNames |-> << >>]
    \* the channel under test is not in use
    /\ channel = << >> /\ prod = << >> /\ sent = << >> /\ got = << >>
    /\ subscribed = {} /\ panicked = {} /\ attachedAt = << >> /\ completed = << >>
    \* no pipeline is being connected
    /\ config = << >> /\ order = << >> /\ stages = << >> /\ registry = << >>
    /\ phase = "idle" /\ idx = 0 /\ deferred = << >> /\ newDeferred = << >>
    /\ progress = FALSE /\ errNames = << >> /\ tries = 0 /\ run = 0 /\ firstRun = << >>
    \* no stage task has been started
    /\ streams = << >> /\ controlCh = << >> /\ task = << >> /\ proc = << >>
    /\ ctrlc = "idle" /\ joined = FALSE /\ emitted = 0 /\ blockedAtTerm = << >>
    /\ startPhase = "idle" /\ startOrder = << >> /\ startIdx = 0 /\ startStep = 0
    /\ initCalls = << >> /\ initSaw = << >>
    \* no timing function is applied
    /\ tmsg = << >> /\ tcfg = << >> /\ now = 0 /\ now2 = 0 /\ tout = << >>
    /\ wmgr = << >> /\ arrivals = 0 /\ attached = << >> /\ scenario = 0
    \* idle: validate_config (config/validation.rs)
    /\ vconfig = << >> /\ vresult = << >>
    \* idle: locks a stage task holds (pipeline.rs, mqtt.rs, channel.rs)
    /\ lkConfig = << >> /\ lkPc = "none" /\ lkHeld = {} /\ lkIdx = 0 /\ lkBuf = << >> /\ lkEmitted = 0
    \* idle: wait_for_all has not returned (pipeline.rs)
    /\ waitResult = "none"
    \* idle: Stage::run of one stage (core/stage.rs)
    /\ srControl = << >> /\ srPc = "none" /\ srCalls = 0 /\ srLast = "none" /\ srResult = "none" /\ srTaken = 0
    \* idle: build_all, connect_stages and start_all over the configured entries (pipeline.rs)
    /\ enConfig = << >> /\ enPipelines = << >> /\ enNames = << >> /\ enStages = << >> /\ enPhase = "none" /\ enIdx = 0 /\ enHandles = << >> /\ enTasks = << >>
    \* idle: process of a stage with several inputs (fusion.rs, rule.rs, scale.rs, output/mqtt.rs)
    /\ miKind = "none" /\ miOrder = << >> /\ miArrived = << >> /\ miProcessed = << >> /\ miPos = 0 /\ miLast = "none"
    \* idle: calls of register_processor and create_processor by the application (factory.rs)
    /\ faRegistered = << >> /\ faLast = << >>

\* the factory: PROCESSOR_REGISTRY and the OnceLock of the defaults
Factory == [registry |-> processorRegistry, installs |-> defaultsInstalled]

\* create_processor_factories, which build_all calls first: it makes sure the
\* built-in processors are registered
CreateProcessorFactories(factory) == EnsureDefaultProcessors(factory)

\* the application registers a processor of its own before it builds
RegisterProcessor ==
    /\ buildPhase = "idle"
    /\ \E n \in CustomProcessors :
          processorRegistry' = RegisterProcessorIn(processorRegistry, n, n)
    /\ UNCHANGED <<defaultsInstalled, stageConfigs, built, buildPhase, buildBatch,
                   buildErr, outbox>>
    /\ UNCHANGED <<chanVars, connVars, runVars, timeVars, validVars, lockVars, joinVars, stageVars, entryVars, multiVars, factoryVars>>

\* list_processors (--list-processors), a first access that creates nothing
ListProcessors ==
    /\ buildPhase = "idle"
    /\ processorRegistry' = EnsureDefaultProcessors(Factory).registry
    /\ defaultsInstalled' = EnsureDefaultProcessors(Factory).installs
    /\ UNCHANGED <<stageConfigs, built, buildPhase, buildBatch, buildErr, outbox>>
    /\ UNCHANGED <<chanVars, connVars, runVars, timeVars, validVars, lockVars, joinVars, stageVars, entryVars, multiVars, factoryVars>>

\* build_all is entered
BuildAllEnter ==
    /\ buildPhase = "idle"
    /\ processorRegistry' = CreateProcessorFactories(Factory).registry
    /\ defaultsInstalled' = CreateProcessorFactories(Factory).installs
    /\ buildPhase' = "building"
    /\ buildBatch' = 1
    /\ UNCHANGED <<stageConfigs, built, buildErr, outbox>>
    /\ UNCHANGED <<chanVars, connVars, runVars, timeVars, validVars, lockVars, joinVars, stageVars, entryVars, multiVars, factoryVars>>

\* one turn of the loop of create_stages, in the HashMap's order: the stage
\* is created under its type's name and inserted under its declared name; a
\* None makes create_stages, and with it build_all, return the error and drop
\* the stages made so far.  After the last stage of a map build_all goes on
\* with the next map, and returns Ok after the last one.
CreateStageStep(n) ==
    /\ buildPhase = "building"
    /\ n \in BuildBatches[buildBatch]
    /\ n \notin DOMAIN built
    /\ LET made == CreateStage(Factory, stageConfigs[n].type, stageConfigs[n])
       IN  /\ processorRegistry' = made.factory.registry
           /\ defaultsInstalled' = made.factory.installs
           /\ IF made.stage = NoValue
              THEN /\ buildPhase' = "err"
                   /\ buildErr' = n
                   /\ built' = << >>
                   /\ UNCHANGED buildBatch
              ELSE /\ built' = (n :> Unwrap(made.stage)) @@ built
                   /\ UNCHANGED buildErr
                   /\ IF BuildBatches[buildBatch] \subseteq DOMAIN built \cup {n}
                      THEN IF buildBatch = Len(BuildBatches)
                           THEN buildPhase' = "ok" /\ UNCHANGED buildBatch
                           ELSE buildBatch' = buildBatch + 1 /\ UNCHANGED buildPhase
                      ELSE UNCHANGED <<buildPhase, buildBatch>>
    /\ UNCHANGED <<stageConfigs, outbox>>
    /\ UNCHANGED <<chanVars, connVars, runVars, timeVars, validVars, lockVars, joinVars, stageVars, entryVars, multiVars, factoryVars>>

\* SimulatedSignalProcessor::process: one sample is published
SimulatedProcess(s) ==
    /\ buildPhase = "ok"
    /\ built[s].processor.constructor = "simulated"
    /\ Len(outbox[s]) < MaxEmit
    /\ LET made == BuildInputMessage(built[s].processor)
       IN  /\ built' = [built EXCEPT ![s].processor = made.processor]
           /\ outbox' = [outbox EXCEPT ![s] = Append(@, made.message)]
    /\ UNCHANGED <<processorRegistry, defaultsInstalled, stageConfigs, buildPhase,
                   buildBatch, buildErr>>
    /\ UNCHANGED <<chanVars, connVars, runVars, timeVars, validVars, lockVars, joinVars, stageVars, entryVars, multiVars, factoryVars>>

\* TcpInputProcessor::process: a frame that parses as JSON is published
TcpProcess(s) ==
    /\ buildPhase = "ok"
    /\ built[s].processor.constructor = "tcp"
    /\ Len(outbox[s]) < MaxEmit
    /\ LET made == BuildInputMessage(built[s].processor)
       IN  /\ built' = [built EXCEPT ![s].processor = made.processor]
           /\ outbox' = [outbox EXCEPT ![s] = Append(@, made.message)]
    /\ UNCHANGED <<processorRegistry, defaultsInstalled, stageConfigs, buildPhase,
                   buildBatch, buildErr>>
    /\ UNCHANGED <<chanVars, connVars, runVars, timeVars, validVars, lockVars, joinVars, stageVars, entryVars, multiVars, factoryVars>>

\* TcpInputProcessor::process: a frame that is not JSON takes a sequence id
\* and is not published
TcpProcessBadJson(s) ==
    /\ buildPhase = "ok"
    /\ built[s].processor.constructor = "tcp"
    /\ built[s].processor.timing.sequence_counter < 2 * MaxEmit
    /\ built' = [built EXCEPT ![s].processor.timing =
                                  NextSequenceId(built[s].processor.timing).timing]
    /\ UNCHANGED <<processorRegistry, defaultsInstalled, stageConfigs, buildPhase,
                   buildBatch, buildErr, outbox>>
    /\ UNCHANGED <<chanVars, connVars, runVars, timeVars, validVars, lockVars, joinVars, stageVars, entryVars, multiVars, factoryVars>>

BuildNext ==
    \/ RegisterProcessor
    \/ ListProcessors
    \/ BuildAllEnter
    \/ \E n \in DeclaredNames : CreateStageStep(n)
    \/ \E s \in InputNames : SimulatedProcess(s)
    \/ \E s \in InputNames : TcpProcess(s)
    \/ \E s \in InputNames : TcpProcessBadJson(s)

BuildSpec == BuildInit /\ [][BuildNext]_vars

(***************************************************************************)
(* validate_config (config/validation.rs) with extract_field_params        *)
(* (config/params.rs).                                                     *)
(***************************************************************************)
\* the parameters of a stage, as far as extract_field_params reads them:
\* which of field_in, field_out and field_mapping are there, and whether
\* fields_in and fields_out are both there, with equal lengths or not
FieldParams ==
    [field_in : BOOLEAN, field_out : BOOLEAN,
     fields : {"absent", "equal", "unequal"}, field_mapping : BOOLEAN]

\* extract_field_params: the first pattern that matches
ExtractFieldParams(params) ==
    IF params.field_in /\ params.field_out THEN "Single"
    ELSE IF params.field_out THEN "OutputOnly"
    ELSE IF params.fields = "equal" THEN "Multiple"
    ELSE IF params.field_mapping THEN "Mapping"
    ELSE "None"

\* validate_input_stage that does not look at the field configuration
ValidateInputStageAnyFields(name, cfg) ==
    IF IsSome(cfg.inputs) THEN <<"input has inputs", name>>
    ELSE IF ~IsSome(cfg.output) THEN <<"input has no output", name>>
    ELSE << >>

\* validate_input_stage: the error, or << >> for Ok(())
ValidateInputStage(name, cfg) ==
    IF IsSome(cfg.inputs) THEN <<"input has inputs", name>>
    ELSE IF ~IsSome(cfg.output) THEN <<"input has no output", name>>
    ELSE IF ExtractFieldParams(cfg.parameters) \in {"OutputOnly", "None"} THEN << >>
    ELSE <<"input has input fields", name>>

\* validate_pipeline_stage
ValidatePipelineStage(name, cfg) ==
    IF ~IsSome(cfg.inputs) \/ Unwrap(cfg.inputs) = << >>
    THEN <<"pipeline stage has no input", name>>
    ELSE IF ~IsSome(cfg.output) THEN <<"pipeline stage has no output", name>>
    ELSE << >>

\* validate_output_stage
ValidateOutputStage(name, cfg) ==
    IF ~IsSome(cfg.inputs) \/ Unwrap(cfg.inputs) = << >>
    THEN <<"output has no input", name>>
    ELSE IF IsSome(cfg.output) THEN <<"output has an output", name>>
    ELSE << >>

\* the stages of the three sections of a configuration
ValidatedInputs == {"in1", "in2"}
ValidatedPipelineStages == {"tr"}
ValidatedOutputs == {"out"}

\* validate_config: the inputs, then the pipelines, then the outputs, each
\* map in its HashMap's order; the first error is returned.  The set of the
\* results the orders can give: {<< >>} for Ok(())
ValidateConfig(cfg) ==
    LET errIn == {ValidateInputStage(n, cfg[n]) : n \in ValidatedInputs} \ {<< >>}
        errPipe == {ValidatePipelineStage(n, cfg[n]) : n \in ValidatedPipelineStages} \ {<< >>}
        errOut == {ValidateOutputStage(n, cfg[n]) : n \in ValidatedOutputs} \ {<< >>}
    IN  IF errIn # {} THEN errIn
        ELSE IF errPipe # {} THEN errPipe
        ELSE IF errOut # {} THEN errOut
        ELSE {<< >>}

\* the inputs and output a StageConfig can declare
StageShapes ==
    [inputs : {NoValue, Some(<< >>), Some(<<"a">>)}, output : {NoValue, Some("b")}]

\* a configuration: every stage has a shape; the first input stage has any
\* parameters, the other stages have none or a single field mapping
ValidateInit ==
    /\ \E shape \in [ValidatedInputs \cup ValidatedPipelineStages \cup ValidatedOutputs
                        -> StageShapes] :
       \E p1 \in FieldParams : \E single \in SUBSET {"tr"} :
          vconfig = [n \in DOMAIN shape |->
                        [inputs |-> shape[n].inputs, output |-> shape[n].output,
                         parameters |->
                            IF n = "in1" THEN p1
                            ELSE [field_in |-> n \in single, field_out |-> n \in single,
                                  fields |-> "absent", field_mapping |-> FALSE]]]
    /\ vresult = << >>
    \* the channel under test is not in use
    /\ channel = << >> /\ prod = << >> /\ sent = << >> /\ got = << >>
    /\ subscribed = {} /\ panicked = {} /\ attachedAt = << >> /\ completed = << >>
    \* no pipeline is being connected
    /\ config = << >> /\ order = << >> /\ stages = << >> /\ registry = << >>
    /\ phase = "idle" /\ idx = 0 /\ deferred = << >> /\ newDeferred = << >>
    /\ progress = FALSE /\ errNames = << >> /\ tries = 0 /\ run = 0 /\ firstRun = << >>
    \* no stage task has been started
    /\ streams = << >> /\ controlCh = << >> /\ task = << >> /\ proc = << >>
    /\ ctrlc = "idle" /\ joined = FALSE /\ emitted = 0 /\ blockedAtTerm = << >>
    /\ startPhase = "idle" /\ startOrder = << >> /\ startIdx = 0 /\ startStep = 0
    /\ initCalls = << >> /\ initSaw = << >>
    \* no timing function is applied
    /\ tmsg = << >> /\ tcfg = << >> /\ now = 0 /\ now2 = 0 /\ tout = << >>
    /\ wmgr = << >> /\ arrivals = 0 /\ attached = << >> /\ scenario = 0
    \* idle: processor factory, build_all and the input stages
    /\ processorRegistry = << >> /\ defaultsInstalled = 0 /\ stageConfigs = << >>
    /\ built = << >> /\ buildPhase = "none" /\ buildBatch = 0 /\ buildErr = ""
    /\ outbox = << >>
    \* idle: locks a stage task holds (pipeline.rs, mqtt.rs, channel.rs)
    /\ lkConfig = << >> /\ lkPc = "none" /\ lkHeld = {} /\ lkIdx = 0 /\ lkBuf = << >> /\ lkEmitted = 0
    \* idle: wait_for_all has not returned (pipeline.rs)
    /\ waitResult = "none"
    \* idle: Stage::run of one stage (core/stage.rs)
    /\ srControl = << >> /\ srPc = "none" /\ srCalls = 0 /\ srLast = "none" /\ srResult = "none" /\ srTaken = 0
    \* idle: build_all, connect_stages and start_all over the configured entries (pipeline.rs)
    /\ enConfig = << >> /\ enPipelines = << >> /\ enNames = << >> /\ enStages = << >> /\ enPhase = "none" /\ enIdx = 0 /\ enHandles = << >> /\ enTasks = << >>
    \* idle: process of a stage with several inputs (fusion.rs, rule.rs, scale.rs, output/mqtt.rs)
    /\ miKind = "none" /\ miOrder = << >> /\ miArrived = << >> /\ miProcessed = << >> /\ miPos = 0 /\ miLast = "none"
    \* idle: calls of register_processor and create_processor by the application (factory.rs)
    /\ faRegistered = << >> /\ faLast = << >>

\* validate_config(&vconfig)
ApplyValidateConfig ==
    /\ vresult = << >>
    /\ \E result \in ValidateConfig(vconfig) :
          vresult' = [fn |-> "validate_config", value |-> result]
    /\ UNCHANGED vconfig
    /\ UNCHANGED <<chanVars, connVars, runVars, timeVars, buildVars, lockVars, joinVars, stageVars, entryVars, multiVars, factoryVars>>

ValidateNext == ApplyValidateConfig

ValidateSpec == ValidateInit /\ [][ValidateNext]_vars

(***************************************************************************)
(* The locks a stage task holds: the Stage mutex of the spawned task       *)
(* (core/pipeline.rs), the event loop mutex of the MQTT input              *)
(* (processors/input/mqtt.rs), the senders mutex of a Fanout channel       *)
(* (core/channel.rs).                                                      *)
(***************************************************************************)
\* the input stages whose task is followed
LockStageKinds == {"mqtt_sub", "simulated"}

\* what eventloop.poll() (or the 100 ms sleep it races) gives
PollResults == {"publish", "other", "error", "timeout"}

\* the sends of publish that wait for room: one buffer per subscriber of a
\* Fanout channel, one buffer for a Direct or Shared channel, none for a
\* Broadcast channel
SendTargets(cfg) ==
    CASE cfg.channel = "Fanout" -> cfg.subscribers
      [] cfg.channel = "Broadcast" -> 0
      [] OTHER -> 1

\* a stage, its output channel, and the task start_all spawned for it
LockInit ==
    /\ \E k \in LockStageKinds, c \in Kinds, cap \in 1..MaxCap, n \in 0..2 :
          lkConfig = [stage |-> k, channel |-> c, capacity |-> cap, subscribers |-> n]
    /\ lkPc = "spawned"
    /\ lkHeld = {}
    /\ lkIdx = 0
    /\ lkBuf = [i \in 1..2 |-> 0]
    /\ lkEmitted = 0
    \* the channel under test is not in use
    /\ channel = << >> /\ prod = << >> /\ sent = << >> /\ got = << >>
    /\ subscribed = {} /\ panicked = {} /\ attachedAt = << >> /\ completed = << >>
    \* no pipeline is being connected
    /\ config = << >> /\ order = << >> /\ stages = << >> /\ registry = << >>
    /\ phase = "idle" /\ idx = 0 /\ deferred = << >> /\ newDeferred = << >>
    /\ progress = FALSE /\ errNames = << >> /\ tries = 0 /\ run = 0 /\ firstRun = << >>
    \* no stage task has been started
    /\ streams = << >> /\ controlCh = << >> /\ task = << >> /\ proc = << >>
    /\ ctrlc = "idle" /\ joined = FALSE /\ emitted = 0 /\ blockedAtTerm = << >>
    /\ startPhase = "idle" /\ startOrder = << >> /\ startIdx = 0 /\ startStep = 0
    /\ initCalls = << >> /\ initSaw = << >>
    \* no timing function is applied
    /\ tmsg = << >> /\ tcfg = << >> /\ now = 0 /\ now2 = 0 /\ tout = << >>
    /\ wmgr = << >> /\ arrivals = 0 /\ attached = << >> /\ scenario = 0
    \* idle: processor factory, build_all and the input stages
    /\ processorRegistry = << >> /\ defaultsInstalled = 0 /\ stageConfigs = << >>
    /\ built = << >> /\ buildPhase = "none" /\ buildBatch = 0 /\ buildErr = ""
    /\ outbox = << >>
    \* idle: validate_config
    /\ vconfig = << >> /\ vresult = << >>
    \* idle: wait_for_all has not returned (pipeline.rs)
    /\ waitResult = "none"
    \* idle: Stage::run of one stage (core/stage.rs)
    /\ srControl = << >> /\ srPc = "none" /\ srCalls = 0 /\ srLast = "none" /\ srResult = "none" /\ srTaken = 0
    \* idle: build_all, connect_stages and start_all over the configured entries (pipeline.rs)
    /\ enConfig = << >> /\ enPipelines = << >> /\ enNames = << >> /\ enStages = << >> /\ enPhase = "none" /\ enIdx = 0 /\ enHandles = << >> /\ enTasks = << >>
    \* idle: process of a stage with several inputs (fusion.rs, rule.rs, scale.rs, output/mqtt.rs)
    /\ miKind = "none" /\ miOrder = << >> /\ miArrived = << >> /\ miProcessed = << >> /\ miPos = 0 /\ miLast = "none"
    \* idle: calls of register_processor and create_processor by the application (factory.rs)
    /\ faRegistered = << >> /\ faLast = << >>

\* the spawned task: stage_clone.lock().await, then run() under the guard
TaskLockStage ==
    /\ lkPc = "spawned"
    /\ lkHeld' = lkHeld \cup {"stage"}
    /\ lkPc' = "running"
    /\ UNCHANGED <<lkConfig, lkIdx, lkBuf, lkEmitted>>
    /\ UNCHANGED <<chanVars, connVars, runVars, timeVars, buildVars, validVars, joinVars, stageVars, entryVars, multiVars, factoryVars>>

\* MqttInputProcessor::process: event_loop_mutex.lock().await
MqttLockEventLoop ==
    /\ lkPc = "running"
    /\ lkConfig.stage = "mqtt_sub"
    /\ lkEmitted < MaxEmit
    /\ lkHeld' = lkHeld \cup {"eventloop"}
    /\ lkPc' = "poll"
    /\ UNCHANGED <<lkConfig, lkIdx, lkBuf, lkEmitted>>
    /\ UNCHANGED <<chanVars, connVars, runVars, timeVars, buildVars, validVars, joinVars, stageVars, entryVars, multiVars, factoryVars>>

\* MqttInputProcessor::process: the select! of eventloop.poll() and the
\* sleep; a Publish packet is made a message and published, inside the block
\* that owns the guard
MqttPoll ==
    /\ lkPc = "poll"
    /\ \E event \in PollResults :
          lkPc' = IF event = "publish" THEN "publish" ELSE "unlock"
    /\ UNCHANGED <<lkConfig, lkHeld, lkIdx, lkBuf, lkEmitted>>
    /\ UNCHANGED <<chanVars, connVars, runVars, timeVars, buildVars, validVars, joinVars, stageVars, entryVars, multiVars, factoryVars>>

\* MqttInputProcessor::process: the guard is dropped at the end of the block
MqttUnlockEventLoop ==
    /\ lkPc = "unlock"
    /\ lkHeld' = lkHeld \ {"eventloop"}
    /\ lkPc' = "running"
    /\ UNCHANGED <<lkConfig, lkIdx, lkBuf, lkEmitted>>
    /\ UNCHANGED <<chanVars, connVars, runVars, timeVars, buildVars, validVars, joinVars, stageVars, entryVars, multiVars, factoryVars>>

\* SimulatedSignalProcessor::process: a sample is made and published
SimulatedSample ==
    /\ lkPc = "running"
    /\ lkConfig.stage = "simulated"
    /\ lkEmitted < MaxEmit
    /\ lkPc' = "publish"
    /\ UNCHANGED <<lkConfig, lkHeld, lkIdx, lkBuf, lkEmitted>>
    /\ UNCHANGED <<chanVars, connVars, runVars, timeVars, buildVars, validVars, joinVars, stageVars, entryVars, multiVars, factoryVars>>

\* channel.publish(message) is called; FanoutChannel::publish first takes
\* the senders mutex
PublishEnter ==
    /\ lkPc = "publish"
    /\ IF lkConfig.channel = "Fanout"
       THEN lkHeld' = lkHeld \cup {"senders"} /\ lkPc' = "cloned"
       ELSE lkPc' = "send" /\ UNCHANGED lkHeld
    /\ lkIdx' = 1
    /\ UNCHANGED <<lkConfig, lkBuf, lkEmitted>>
    /\ UNCHANGED <<chanVars, connVars, runVars, timeVars, buildVars, validVars, joinVars, stageVars, entryVars, multiVars, factoryVars>>

\* FanoutChannel::publish: the senders are cloned and the guard is dropped
\* at the end of its block, before the sends
FanoutCloneSenders ==
    /\ lkPc = "cloned"
    /\ lkHeld' = lkHeld \ {"senders"}
    /\ lkPc' = "send"
    /\ UNCHANGED <<lkConfig, lkIdx, lkBuf, lkEmitted>>
    /\ UNCHANGED <<chanVars, connVars, runVars, timeVars, buildVars, validVars, joinVars, stageVars, entryVars, multiVars, factoryVars>>

\* publish awaits a send: it goes through when the buffer has room
SendAwait ==
    /\ lkPc = "send"
    /\ lkIdx <= SendTargets(lkConfig)
    /\ lkBuf[lkIdx] < lkConfig.capacity
    /\ lkBuf' = [lkBuf EXCEPT ![lkIdx] = @ + 1]
    /\ lkIdx' = lkIdx + 1
    /\ UNCHANGED <<lkConfig, lkPc, lkHeld, lkEmitted>>
    /\ UNCHANGED <<chanVars, connVars, runVars, timeVars, buildVars, validVars, joinVars, stageVars, entryVars, multiVars, factoryVars>>

\* publish returns to process; the MQTT input is still inside the block of
\* the guard
PublishReturn ==
    /\ lkPc = "send"
    /\ lkIdx > SendTargets(lkConfig)
    /\ lkEmitted' = lkEmitted + 1
    /\ lkPc' = IF lkConfig.stage = "mqtt_sub" THEN "unlock" ELSE "running"
    /\ UNCHANGED <<lkConfig, lkHeld, lkIdx, lkBuf>>
    /\ UNCHANGED <<chanVars, connVars, runVars, timeVars, buildVars, validVars, joinVars, stageVars, entryVars, multiVars, factoryVars>>

\* a subscriber of the output channel takes a message from its buffer
DownstreamRecv ==
    /\ \E i \in 1..2 :
          /\ i <= SendTargets(lkConfig)
          /\ lkBuf[i] > 0
          /\ lkBuf' = [lkBuf EXCEPT ![i] = @ - 1]
    /\ UNCHANGED <<lkConfig, lkPc, lkHeld, lkIdx, lkEmitted>>
    /\ UNCHANGED <<chanVars, connVars, runVars, timeVars, buildVars, validVars, joinVars, stageVars, entryVars, multiVars, factoryVars>>

LockNext ==
    \/ TaskLockStage
    \/ MqttLockEventLoop
    \/ MqttPoll
    \/ MqttUnlockEventLoop
    \/ SimulatedSample
    \/ PublishEnter
    \/ FanoutCloneSenders
    \/ SendAwait
    \/ PublishReturn
    \/ DownstreamRecv

LockSpec == LockInit /\ [][LockNext]_vars

(***************************************************************************)
(* Stage::run of one stage (core/stage.rs): the loop around select! over   *)
(* the control channel and processor.process.                              *)
(***************************************************************************)
\* mutant of ControlRecv: a closed control channel counts as Terminate
ControlRecvClosedTerminates(ctl) ==
    CASE ctl.kind = "absent" -> "None"
      [] ctl.pending > 0 -> "Some"
      [] ctl.kind = "closed" -> "Some"
      [] OTHER -> "Pending"

\* the control branch of select!: None at once without a control channel;
\* otherwise recv().await.ok(), which is Some(message) when one is queued,
\* None (from Err(Closed)) when none is queued and every sender is gone, and
\* waits otherwise
ControlRecv(ctl) ==
    CASE ctl.kind = "absent" -> "None"
      [] ctl.pending > 0 -> "Some"
      [] ctl.kind = "closed" -> "None"
      [] OTHER -> "Pending"

\* a stage created by Stage::new, with or without a control channel
\* attached, entering run
StageRunInit ==
    /\ srControl \in [kind : {"absent", "open"}, pending : {0}, sent : {0}]
    /\ srPc = "select"
    /\ srCalls = 0
    /\ srLast = "none"
    /\ srResult = "none"
    /\ srTaken = 0
    \* the channel under test is not in use
    /\ channel = << >> /\ prod = << >> /\ sent = << >> /\ got = << >>
    /\ subscribed = {} /\ panicked = {} /\ attachedAt = << >> /\ completed = << >>
    \* no pipeline is being connected
    /\ config = << >> /\ order = << >> /\ stages = << >> /\ registry = << >>
    /\ phase = "idle" /\ idx = 0 /\ deferred = << >> /\ newDeferred = << >>
    /\ progress = FALSE /\ errNames = << >> /\ tries = 0 /\ run = 0 /\ firstRun = << >>
    \* no stage task has been started
    /\ streams = << >> /\ controlCh = << >> /\ task = << >> /\ proc = << >>
    /\ ctrlc = "idle" /\ joined = FALSE /\ emitted = 0 /\ blockedAtTerm = << >>
    /\ startPhase = "idle" /\ startOrder = << >> /\ startIdx = 0 /\ startStep = 0
    /\ initCalls = << >> /\ initSaw = << >>
    \* no timing function is applied
    /\ tmsg = << >> /\ tcfg = << >> /\ now = 0 /\ now2 = 0 /\ tout = << >>
    /\ wmgr = << >> /\ arrivals = 0 /\ attached = << >> /\ scenario = 0
    \* idle: processor factory, build_all and the input stages
    /\ processorRegistry = << >> /\ defaultsInstalled = 0 /\ stageConfigs = << >>
    /\ built = << >> /\ buildPhase = "none" /\ buildBatch = 0 /\ buildErr = ""
    /\ outbox = << >>
    \* idle: validate_config
    /\ vconfig = << >> /\ vresult = << >>
    \* idle: wait_for_all has not returned (pipeline.rs)
    /\ waitResult = "none"
    \* idle: locks a stage task holds (pipeline.rs, mqtt.rs, channel.rs)
    /\ lkConfig = << >> /\ lkPc = "none" /\ lkHeld = {} /\ lkIdx = 0 /\ lkBuf = << >> /\ lkEmitted = 0
    \* idle: wait_for_all has not returned (pipeline.rs)
    /\ waitResult = "none"
    \* idle: build_all, connect_stages and start_all over the configured entries (pipeline.rs)
    /\ enConfig = << >> /\ enPipelines = << >> /\ enNames = << >> /\ enStages = << >> /\ enPhase = "none" /\ enIdx = 0 /\ enHandles = << >> /\ enTasks = << >>
    \* idle: process of a stage with several inputs (fusion.rs, rule.rs, scale.rs, output/mqtt.rs)
    /\ miKind = "none" /\ miOrder = << >> /\ miArrived = << >> /\ miProcessed = << >> /\ miPos = 0 /\ miLast = "none"
    \* idle: calls of register_processor and create_processor by the application (factory.rs)
    /\ faRegistered = << >> /\ faLast = << >>

\* the Ctrl-C task of wait_for_all sends Terminate, once
CtrlCSend ==
    /\ srControl.kind = "open"
    /\ srControl.sent = 0
    /\ srControl' = [srControl EXCEPT !.pending = @ + 1, !.sent = 1]
    /\ UNCHANGED <<srPc, srCalls, srLast, srResult, srTaken>>
    /\ UNCHANGED <<chanVars, connVars, runVars, timeVars, buildVars, validVars, lockVars, joinVars, entryVars, multiVars, factoryVars>>

\* every sender of the control channel is dropped (the manager is dropped
\* when start_all returns an error or wait_for_all returns, the Ctrl-C task
\* when it has sent)
SendersDropped ==
    /\ srControl.kind = "open"
    /\ srControl' = [srControl EXCEPT !.kind = "closed"]
    /\ UNCHANGED <<srPc, srCalls, srLast, srResult, srTaken>>
    /\ UNCHANGED <<chanVars, connVars, runVars, timeVars, buildVars, validVars, lockVars, joinVars, entryVars, multiVars, factoryVars>>

\* select! takes the control branch: Some(Terminate) matched, whether
\* process was polled in this iteration or not; the process future is
\* dropped, the loop is left and run returns Ok
RunTerminate ==
    /\ srPc \in {"select", "process"}
    /\ ControlRecv(srControl) = "Some"
    /\ srControl' = [srControl EXCEPT !.pending = IF @ > 0 THEN @ - 1 ELSE 0]
    /\ srTaken' = srTaken + 1
    /\ srResult' = "Ok"
    /\ srPc' = "returned"
    /\ UNCHANGED <<srCalls, srLast>>
    /\ UNCHANGED <<chanVars, connVars, runVars, timeVars, buildVars, validVars, lockVars, joinVars, entryVars, multiVars, factoryVars>>

\* select! polls the future of processor.process(&mut context): the call
\* starts
RunProcessCall ==
    /\ srPc = "select"
    /\ srCalls < MaxCalls
    /\ srCalls' = srCalls + 1
    /\ srPc' = "process"
    /\ UNCHANGED <<srControl, srLast, srResult, srTaken>>
    /\ UNCHANGED <<chanVars, connVars, runVars, timeVars, buildVars, validVars, lockVars, joinVars, entryVars, multiVars, factoryVars>>

\* process returns Ok: nothing to do, the loop goes round
RunProcessOk ==
    /\ srPc = "process"
    /\ srLast' = "Ok"
    /\ srPc' = "select"
    /\ UNCHANGED <<srControl, srCalls, srResult, srTaken>>
    /\ UNCHANGED <<chanVars, connVars, runVars, timeVars, buildVars, validVars, lockVars, joinVars, entryVars, multiVars, factoryVars>>

\* process returns Err(e): it is logged and run returns Err(e)
RunProcessErr ==
    /\ srPc = "process"
    /\ srLast' = "Err"
    /\ srResult' = "Err"
    /\ srPc' = "returned"
    /\ UNCHANGED <<srControl, srCalls, srTaken>>
    /\ UNCHANGED <<chanVars, connVars, runVars, timeVars, buildVars, validVars, lockVars, joinVars, entryVars, multiVars, factoryVars>>

StageRunNext ==
    \/ CtrlCSend
    \/ SendersDropped
    \/ RunTerminate
    \/ RunProcessCall
    \/ RunProcessOk
    \/ RunProcessErr

StageRunSpec == StageRunInit /\ [][StageRunNext]_vars

(***************************************************************************)
(* Properties of the stage tasks.                                          *)
(***************************************************************************)
Exited == {s \in RunStages : task[s] = "exited"}

\* C2: once Terminate has been broadcast on the control channel every running
\* stage task eventually leaves its run loop, a stage whose process() is then
\* blocked in recv on an empty input or in publish on a full bounded channel
\* included, and wait_for_all then returns; it returns only when no stage task
\* remains.
C2_TerminateStopsAll ==
    /\ [](joined => Exited = RunStages)
    /\ (ctrlc = "sent") ~> (joined /\ Exited = RunStages)

\* Terminate found one stage blocked in recv and another blocked in publish;
\* all tasks have exited and wait_for_all has returned
C2_Witness ==
    /\ joined
    /\ Exited = RunStages
    /\ \E s \in RunStages : blockedAtTerm[s] = "recv"
    /\ \E s \in RunStages : blockedAtTerm[s] = "publish"


(***************************************************************************)
(* Properties of startup and of stage failure.                             *)
(***************************************************************************)
\* what must be attached to stage s before init(): the control subscriber
\* and the subscriber of its input
MustBeAttached(s) == {"control"} \cup (IF RunInput(s) # NoStream THEN {"input"} ELSE {})

PeerUnblocks ==
    /\ SubscriberCanRecv(streams["b"], "sink")
    /\ ChannelCanSend(SubscriberRecv(streams["b"], "sink").chan, proc["fusion"].call)

\* C13 as stated: when process of the file stage returned an error only that
\* task ends (no other task fails, and tasks exit only on Terminate), and the
\* producer of its input stream b and the other consumer of b keep exchanging
\* messages: a publish of the producer that waits for room is let through by
\* the other consumer receiving.
C13_FailureIsIsolated ==
    task["file"] = "failed" =>
        /\ \A s \in StartStages \ {"file"} :
              /\ task[s] # "failed"
              /\ task[s] = "exited" => ctrlc = "sent"
        /\ (BlockedInPublish("fusion") /\ task["sink"] = "running") => PeerUnblocks

\* the stages start_all has spawned
Spawned == {s \in DOMAIN task : task[s] # "unspawned"}

\* C14 as stated: when init() of a stage returns an error start_all returns
\* it without spawning that stage or a later one, and no task spawned earlier
\* in the same start_all is left running.
C14_InitErrorAbortsStartup ==
    startPhase = "failed" =>
        /\ \A i \in startIdx..Len(startOrder) : startOrder[i] \notin Spawned
        /\ \A s \in Spawned : task[s] # "running"

(***************************************************************************)
(* Properties of connect_stages.                                           *)
(***************************************************************************)
InputsOf(cfg, n) == {cfg[n].inputs[i] : i \in 1..Len(cfg[n].inputs)}

\* the streams the stages of S output
Produced(cfg, S) == {cfg[n].output : n \in S} \ {NoStream}

\* the stages that can get all their inputs: the least set closed under
\* "every input of the stage is the output of a stage of the set"
RECURSIVE Wirable(_, _)
Wirable(cfg, S) ==
    LET T == S \cup {n \in Configured(cfg) : InputsOf(cfg, n) \subseteq Produced(cfg, S)}
    IN  IF T = S THEN S ELSE Wirable(cfg, T)

\* the stages that can never have all their inputs in the registry
Stuck(cfg) == Configured(cfg) \ Wirable(cfg, {})

\* stage n is wired as its configuration says
Wired(n) ==
    /\ \A i \in 1..Len(config[n].inputs) :
          LET c == config[n].inputs[i]
          IN  /\ c \in DOMAIN stages[n].inputs
              /\ c \in DOMAIN registry
              /\ stages[n].inputs[c] \in registry[c].handles
    /\ config[n].output # NoStream =>
          /\ stages[n].output = config[n].output
          /\ config[n].output \in DOMAIN registry

\* try_connect_stage is called at most n times in the first pass and, a pass
\* with progress shortening the deferred list, at most n + (n-1) + ... + 1
\* times in resolve_deferred_stages (plus one pass without progress)
TriesBound(n) == n + (n * (n + 1)) \div 2 + n

C3_Inv ==
    /\ phase = "ok" => \A n \in Configured(config) : Wired(n)
    /\ tries <= TriesBound(Len(order))
    /\ phase \in {"first", "resolve"} =>
          ENABLED (ConnectFirstPass \/ ConnectResolveCall \/ ResolveLoopHead
                      \/ ResolveTry \/ ResolvePassEnd)

\* a pass over the deferred list that made progress leaves fewer stages
\* deferred; after a pass without progress the loop ends
C3_PassProgress ==
    /\ (phase = "resolve" /\ idx >= 1 /\ idx > Len(deferred)) =>
          IF progress THEN Len(deferred') < Len(deferred) ELSE deferred' = deferred
    /\ (phase = "resolve" /\ idx = 0 /\ ~progress) => phase' \in {"ok", "err"}

\* C3: connect_stages terminates (it always has a next step until it returns,
\* the number of try_connect_stage calls is bounded, and every pass over the
\* deferred list either wires one more stage or ends the loop); when it returns
\* Ok every configured stage has a subscriber of each of its input streams
\* and its output channel attached.
C3_ConnectTerminates == []C3_Inv /\ [][C3_PassProgress]_vars

\* a consumer-before-producer chain C <- B <- A, visited C, B, A: two passes
\* over the deferred list make progress, and all stages end up wired
C3_Witness ==
    /\ phase = "ok"
    /\ run = 1
    /\ order = <<"src", "C", "B", "A", "out">>
    /\ tries = 8
    /\ \A n \in StageNames : Wired(n)

\* C4: connect_stages returns the unmet-or-circular-dependency error exactly
\* when some stage can never have all its inputs in the registry, and the
\* error names exactly those stages, each once.
C4_ErrExactlyStuck ==
    phase \in {"ok", "err"} =>
        /\ phase = "err" <=> Stuck(config) # {}
        /\ {errNames[i] : i \in 1..Len(errNames)} = Stuck(config)
        /\ Len(errNames) = Cardinality(Stuck(config))

\* scenario D: A (inputs b, output a) and B (inputs a, output b)
C4_Witness ==
    /\ Configured(config) = {"A", "B"}
    /\ config["A"].inputs = <<"b">> /\ config["A"].output = "a"
    /\ config["B"].inputs = <<"a">> /\ config["B"].output = "b"
    /\ phase = "err"
    /\ {errNames[i] : i \in 1..Len(errNames)} = {"A", "B"}

\* C5 as stated: connecting the same configuration in two visiting orders
\* gives the same result: both Ok with the same wiring, or both Err naming
\* the same stages.
C5_OrderIndependent ==
    (run = 2 /\ ConnectReturned) =>
        /\ phase = firstRun.phase
        /\ phase = "ok" => Outcome.wiring = firstRun.wiring
        /\ phase = "err" => Outcome.stuck = firstRun.stuck

\* no two stages declare the same output stream with different channel types
SameTypePerStream(cfg) ==
    \A m, n \in Configured(cfg) :
        (cfg[m].output = cfg[n].output /\ cfg[m].output # NoStream) => cfg[m].kind = cfg[n].kind

\* the capacities get_or_create is called with
Capacities == {1, DefaultCapacity}

\* get_or_create on the registry as it is: an existing entry is returned
\* unchanged, a missing one is created from the arguments, the other entries
\* are kept, and a second call with other arguments changes nothing
C15_Inv ==
    \A n \in Streams, k \in Kinds, c \in Capacities :
        LET r == GetOrCreate(registry, n, k, c)
        IN  /\ DOMAIN r = DOMAIN registry \cup {n}
            /\ \A m \in DOMAIN registry : r[m] = registry[m]
            /\ n \notin DOMAIN registry => r[n] = NewChannel(k, c)
            /\ \A k2 \in Kinds, c2 \in Capacities : GetOrCreate(r, n, k2, c2) = r

\* while connect_stages runs a channel stays in the registry with its type
\* and capacity, and a try_connect_stage that finds an input missing (it only
\* calls get) leaves the registry as it is
C15_Step ==
    run' = run =>
        /\ \A n \in DOMAIN registry :
              /\ n \in DOMAIN registry'
              /\ registry'[n].kind = registry[n].kind
              /\ registry'[n].capacity = registry[n].capacity
        /\ (phase = "first" /\ idx <= Len(order)
              /\ ~AreAllInputsAvailable(registry, config[order[idx]])) => registry' = registry

\* C15: get_or_create is idempotent in channel identity: for a fixed name
\* every call returns the same channel, created with the type and capacity of
\* the first call and never replaced or changed by the arguments of a later
\* call; get(name) never creates a channel.
C15_GetOrCreateIdempotent == []C15_Inv /\ [][C15_Step]_vars

\* A and B both declare output b, A a Direct and B a Broadcast channel; both
\* are wired and b is the channel the first of them created
C15_Witness ==
    /\ config["A"].output = "b" /\ config["A"].kind = "Direct"
    /\ config["B"].output = "b" /\ config["B"].kind = "Broadcast"
    /\ stages["A"].output = "b"
    /\ stages["B"].output = "b"
    /\ registry["b"].kind = "Direct"

DirectStreams == {c \in DOMAIN registry : registry[c].kind = "Direct"}

\* the stages that name stream c as an input
Readers(c) == {n \in Configured(config) : c \in InputsOf(config, n)}

\* the stages that hold a subscriber of stream c
Attached(c) == {n \in DOMAIN stages : c \in DOMAIN stages[n].inputs}

\* C8: a Direct channel hands out at most one receiver over its whole life:
\* the second subscribe() fails (panics) and attaches nothing, so that when
\* two stages name the same Direct stream as an input connect_stages does not
\* return Ok.
C8_DirectSingleSubscriber ==
    /\ \A c \in DirectStreams :
          /\ Cardinality(registry[c].handles) <= 1
          /\ Cardinality(Attached(c)) <= 1
          /\ registry[c].receiver <=> registry[c].handles = {}
          /\ phase = "ok" => Cardinality(Readers(c)) <= 1
    /\ phase = "panic" =>
          \E c \in DirectStreams : ~registry[c].receiver /\ Cardinality(Readers(c)) >= 2

\* two stages name the Direct stream b: the second subscribe panicked
C8_Witness ==
    /\ phase = "panic"
    /\ "b" \in DirectStreams
    /\ Cardinality(registry["b"].handles) = 1
    /\ Cardinality(Attached("b")) = 1
    /\ Cardinality(Readers("b")) = 2


(***************************************************************************)
(* Properties of the channel substrate.                                    *)
(***************************************************************************)
Range(seq) == {seq[i] : i \in 1..Len(seq)}

Occurrences(seq, m) == Cardinality({i \in 1..Len(seq) : seq[i] = m})

\* index of the first occurrence of m in seq (0 when absent)
Pos(seq, m) == IF m \in Range(seq) THEN CHOOSE i \in 1..Len(seq) :
                                           seq[i] = m /\ \A j \in 1..(i - 1) : seq[j] # m
               ELSE 0

\* the values buffered for handle s: what its coming recv calls return, in
\* that order, if nothing more is published
Buffered(ch, s) ==
    CASE ch.kind = "Direct"    -> ch.queue
      [] ch.kind = "Shared"    -> ch.queue
      [] ch.kind = "Fanout"    -> ch.fanq[s]
      [] ch.kind = "Broadcast" ->
            IF BroadcastLagging(ch, s)
            THEN <<None>> \o SubSeq(ch.log, Len(ch.log) - BroadcastBufLen(ch.capacity) + 1, Len(ch.log))
            ELSE SubSeq(ch.log, ch.next[s] + 1, Len(ch.log))

\* what s has received followed by what is buffered for it
View(s) == got[s] \o Buffered(channel, s)

\* the messages of each producer appear in the order it published them
PerProducerOrder(seq) ==
    \A i, j \in 1..Len(seq) : (i < j /\ seq[i][1] = seq[j][1]) => seq[i][2] < seq[j][2]

\* a Broadcast subscriber that has never been overtaken by the producers
NotLagged(s) == None \notin Range(got[s]) /\ ~BroadcastLagging(channel, s)

C1_Covered(s) ==
    /\ s \in subscribed
    /\ \/ channel.kind \in {"Direct", "Fanout"}
       \/ channel.kind = "Broadcast" /\ NotLagged(s)

\* C1: on a Direct or Fanout channel, and on a Broadcast channel for a
\* subscriber that has not lagged, every message whose publish returned Ok and
\* that was published after the subscriber attached has been received by the
\* subscriber or is buffered for it, the next recv returns the first buffered
\* value, and the messages of one producer are received in publish order.
C1_DeliveryInOrder ==
    \A s \in Subscribers : C1_Covered(s) =>
        /\ \A i \in 1..Len(completed) :
              s \in attachedAt[completed[i]] => completed[i] \in Range(View(s))
        /\ PerProducerOrder(View(s))
        /\ Buffered(channel, s) # << >> =>
              /\ SubscriberCanRecv(channel, s)
              /\ SubscriberRecv(channel, s).value = Head(Buffered(channel, s))

C1_Witness ==
    /\ channel.kind = "Fanout"
    /\ got["s1"] = << <<"p1", 1>>, <<"p1", 2>> >>
    /\ got["s2"] = << <<"p1", 1>>, <<"p1", 2>> >>

\* C6: on a Direct, Shared or Fanout channel no buffer ever holds more than
\* capacity messages (publish completes only into free room), and every message
\* whose publish returned Ok is, exactly once, received or still buffered: by
\* the sole subscriber (Direct), by the subscribers together (Shared), by each
\* subscriber attached when publish was called (Fanout).
C6_BackpressureNoLoss ==
    channel.kind \in {"Direct", "Shared", "Fanout"} =>
        /\ Len(channel.queue) <= channel.capacity
        /\ \A h \in DOMAIN channel.fanq : Len(channel.fanq[h]) <= channel.capacity
        /\ \A i \in 1..Len(completed) :
              LET m == completed[i]
              IN  CASE channel.kind = "Direct" ->
                         Occurrences(got["s1"] \o got["s2"] \o channel.queue, m) = 1
                    [] channel.kind = "Shared" ->
                         Occurrences(got["s1"] \o got["s2"] \o channel.queue, m) = 1
                    [] channel.kind = "Fanout" ->
                         \A s \in attachedAt[m] : Occurrences(View(s), m) = 1

\* a producer waits inside publish on a full Direct channel of capacity 1
\* while the consumer has taken one message
C6_Witness ==
    /\ channel.kind = "Direct"
    /\ channel.capacity = 1
    /\ Len(channel.queue) = 1
    /\ \E p \in Producers : prod[p] # Idle /\ ~ChannelCanSend(channel, prod[p])
    /\ \E s \in Subscribers : Len(got[s]) = 1

\* C7: on a Shared channel every published message is received by at most
\* one subscriber and is otherwise still in the buffer (none is lost or
\* duplicated), and each subscriber receives its messages in publish order.
C7_SharedExactlyOne ==
    channel.kind = "Shared" =>
        /\ \A i \in 1..Len(completed) :
              Occurrences(got["s1"] \o got["s2"] \o channel.queue, completed[i]) = 1
        /\ Range(got["s1"]) \cap Range(got["s2"]) = {}
        /\ \A s \in Subscribers : \A i, j \in 1..Len(got[s]) :
              i < j => Pos(completed, got[s][i]) < Pos(completed, got[s][j])

C7_Witness ==
    /\ channel.kind = "Shared"
    /\ Len(got["s1"]) >= 1
    /\ Len(got["s2"]) >= 1
    /\ Len(got["s1"]) + Len(got["s2"]) = MaxMsgs

\* the messages published after s attached that s has passed without
\* receiving them
Lost(s) ==
    {m \in Range(channel.log) :
        /\ s \in attachedAt[m]
        /\ Pos(channel.log, m) <= channel.next[s]
        /\ m \notin Range(got[s])}

\* the messages overwritten before s read them
Overwritten(ch, s) ==
    {ch.log[i] : i \in (ch.next[s] + 1)..(Len(ch.log) - BroadcastBufLen(ch.capacity))}

C11_RecvSkipsLag ==
    channel.kind = "Broadcast" => \A s \in Subscribers : None \notin Range(got[s])


(***************************************************************************)
(* Properties of the timing functions                                      *)
(***************************************************************************)
\* C16: should_drop_message returns true exactly when the deadline is set and
\* now > deadline, or the watermark is set and event_time < watermark, or
\* jitter_bounds is configured and processing_latency > jitter_bounds; hence
\* a message without deadline and watermark under a configuration without
\* jitter_bounds is kept, and so is one whose event_time equals its watermark
\* (when neither of the other two reasons applies).
C16_ShouldDropIff ==
    (tout # << >> /\ tout.fn = "should_drop_message") =>
        LET ti == tmsg.timing
            deadline == /\ ti.processing_deadline # NoValue
                        /\ now > ti.processing_deadline[1]
            late == /\ ti.watermark # NoValue
                    /\ ti.event_time < ti.watermark[1]
            jitter == /\ tcfg.jitter_bounds # NoValue
                      /\ ProcessingLatency(ti) > tcfg.jitter_bounds[1]
        IN  /\ tout.value = (deadline \/ late \/ jitter)
            /\ (ti.processing_deadline = NoValue /\ ti.watermark = NoValue
                  /\ tcfg.jitter_bounds = NoValue) => tout.value = FALSE
            /\ (ti.watermark = Some(ti.event_time) /\ ~deadline /\ ~jitter)
                  => tout.value = FALSE

\* a message whose event_time equals its watermark was kept, with a deadline
\* that is not exceeded and a latency within the jitter bounds
C16_Witness ==
    /\ tout # << >>
    /\ tout.fn = "should_drop_message"
    /\ tmsg.timing.watermark = Some(tmsg.timing.event_time)
    /\ tmsg.timing.processing_deadline = Some(now)
    /\ tcfg.jitter_bounds = Some(1)
    /\ ProcessingLatency(tmsg.timing) = 1
    /\ tout.value = FALSE

\* C19 as stated: the child of propagate has the event_time, watermark,
\* sequence_id and trace_id of the source, the time of the call as its
\* ingestion_time, and the deadline of the source exactly when that deadline is
\* not exceeded (not now > deadline) at the call, no deadline otherwise.
C19_PropagateCopies ==
    (tout # << >> /\ tout.fn = "propagate_timing") =>
        LET src == tmsg.timing
            child == tout.value.timing
        IN  /\ child.event_time = src.event_time
            /\ child.watermark = src.watermark
            /\ child.sequence_id = src.sequence_id
            /\ child.trace_id = src.trace_id
            /\ child.ingestion_time \in now..now2
            /\ \E t \in now..now2 :
                  child.processing_deadline =
                      IF src.processing_deadline # NoValue
                            /\ ~(t > src.processing_deadline[1])
                      THEN src.processing_deadline
                      ELSE NoValue

\* C20 as stated: new_with_event_time(.., t) gives a message whose event_time
\* is t and whose ingestion_time is the time of the call, so that for t before
\* the call the processing latency is now - t.
C20_IngestionIsNow ==
    (tout # << >> /\ tout.fn = "new_with_event_time") =>
        LET t == tout.arg[1]
            ti == tout.value.timing
        IN  /\ ti.event_time = t
            /\ ti.ingestion_time \in now..now2
            /\ t < now => ProcessingLatency(ti) \in (now - t)..(now2 - t)


(***************************************************************************)
(* Properties of the watermarks of a stage                                 *)
(***************************************************************************)
\* C17 as stated: whatever the strategy (other than None) and whatever the
\* order of the incoming event times, the watermark values a stage attaches
\* to its outgoing messages never decrease over a run.
C17_WatermarkMonotone ==
    (tcfg # << >> /\ Len(attached) = 2) => attached[1] <= attached[2]

\* C18 as stated: a stage with the Punctuated strategy drops an arriving
\* message exactly when its event_time is lower than the watermark the stage
\* derived from earlier messages; of the event times 0, 100, 200, 50, 400 with
\* max_lateness 10 the message with event time 50 is dropped, the others pass.
C18_PunctuatedDropsLate ==
    (/\ tout # << >>
     /\ tout.fn = "process_with_timing"
     /\ tcfg.watermark_strategy.kind = "Punctuated") =>
        /\ tmsg.timing.watermark = NoValue =>
              ((tout.value = NoValue) <=>
                  (tout.arg # NoValue /\ tmsg.timing.event_time < tout.arg[1]))
        /\ (scenario = arrivals /\ scenario = 4) => tout.value = NoValue
        /\ (scenario = arrivals /\ scenario \in {1, 2, 3, 5}) => tout.value # NoValue


\* C23: under the Heuristic strategy update_watermark returns no watermark,
\* and the message keeps the watermark it came with, while fewer than ten
\* event times are in the window (so for each of the first nine messages);
\* from the tenth event time on every call produces a watermark.
C23_HeuristicNeedsTen ==
    (/\ tcfg # << >>
     /\ tcfg.watermark_strategy.kind = "Heuristic"
     /\ tout # << >>
     /\ tout.value # NoValue) =>
        LET seen == Len(wmgr.event_timestamps)
            out == tout.value[1]
        IN  /\ seen < 10 =>
                  /\ wmgr.last_watermark = NoValue
                  /\ attached = << >>
                  /\ out.timing.watermark = tmsg.timing.watermark
            /\ seen >= 10 =>
                  /\ wmgr.last_watermark # NoValue
                  /\ attached # << >>
                  /\ out.timing.watermark = wmgr.last_watermark

\* the tenth message the stage has seen is the first to get a watermark
C23_Witness ==
    /\ tcfg # << >>
    /\ tcfg.watermark_strategy.kind = "Heuristic"
    /\ arrivals = 10
    /\ Len(wmgr.event_timestamps) = 10
    /\ Len(attached) = 1
    /\ tout.value # NoValue
    /\ tout.value[1].timing.watermark = Some(attached[1])


(***************************************************************************)
(* Properties of the built stages and of the messages they number          *)
(***************************************************************************)
\* the sequence ids of the messages stage s has emitted, in emission order
SequenceIds(s) == [i \in 1..Len(outbox[s]) |-> outbox[s][i].sequence_id[1]]

\* C21: the sequence ids one stage attaches to the messages it emits are
\* strictly increasing in emission order.
C21_SequenceIdsIncrease ==
    buildPhase = "ok" =>
        \A s \in InputNames : \A i, j \in 1..Len(outbox[s]) :
            i < j => SequenceIds(s)[i] < SequenceIds(s)[j]

\* a tcp input has emitted three messages, with a frame that was not JSON
\* between two of them
C21_Witness ==
    /\ buildPhase = "ok"
    /\ \E s \in InputNames :
          /\ built[s].processor.constructor = "tcp"
          /\ SequenceIds(s) = <<1, 4, 6>>

\* C22 as stated: the source of a message is the declared name of the stage
\* that produced it, so two different stages never emit messages with the
\* same (source, sequence_id) pair.
C22_SourceIsStageName ==
    buildPhase = "ok" =>
        /\ \A s \in InputNames : \A i \in 1..Len(outbox[s]) :
              outbox[s][i].source = s
        /\ \A s, t \in InputNames :
              s # t => \A i \in 1..Len(outbox[s]), j \in 1..Len(outbox[t]) :
                          outbox[s][i] # outbox[t][j]

\* C30 as stated: the n-th message a stage emits carries sequence id n, so
\* consecutive messages have consecutive sequence ids.
C30_SequenceIdsConsecutive ==
    buildPhase = "ok" =>
        \A s \in InputNames : \A i \in 1..Len(outbox[s]) :
            SequenceIds(s)[i] = i


\* a stage configuration build_all cannot build: its type is not registered
\* or its constructor rejects its parameters
Unbuildable(n) ==
    \/ stageConfigs[n].type \notin DOMAIN processorRegistry
    \/ ~stageConfigs[n].valid

\* C25: build_all returns an error when a configured stage names a type that
\* is not registered or whose constructor rejects the configuration, and Ok
\* with every stage built otherwise; create_processor returns an error for a
\* name that is not registered; the built-in constructors are installed once,
\* by the first call that looks into the factory.
C25_BuildFailsLoudly ==
    /\ buildPhase = "ok" =>
          /\ \A n \in DeclaredNames : ~Unbuildable(n)
          /\ DOMAIN built = DeclaredNames
    /\ buildPhase = "err" =>
          /\ buildErr \in DeclaredNames
          /\ Unbuildable(buildErr)
          /\ built = << >>
    /\ buildPhase \in {"idle", "building", "ok", "err"} =>
          /\ \A name \in {"bogus", "tcp", "simulated"} :
                name \notin DOMAIN EnsureDefaultProcessors(Factory).registry =>
                    ~CreateProcessor(Factory, name, [valid |-> TRUE]).result.ok
          /\ defaultsInstalled \in {0, 1}
          /\ defaultsInstalled = 1 <=> DefaultProcessors \subseteq DOMAIN processorRegistry
          /\ defaultsInstalled = 0 => DOMAIN processorRegistry \subseteq CustomProcessors
          /\ buildPhase # "idle" => defaultsInstalled = 1

\* build_all failed on a stage of a type nobody registered, after it had
\* built another stage
C25_Witness ==
    /\ buildPhase = "err"
    /\ stageConfigs[buildErr].type = "tcp"
    /\ stageConfigs[buildErr].valid
    /\ "tcp" \notin DOMAIN processorRegistry
    /\ buildBatch = 1
    /\ \E n \in InputNames \ {buildErr} : ~Unbuildable(n)
    /\ defaultsInstalled = 1


(***************************************************************************)
(* Properties of validate_config                                           *)
(***************************************************************************)
\* C24: validate_config accepts a configuration exactly when every input
\* stage declares an output, declares no inputs (has no inputs entry: an
\* empty list is a declaration) and has a field configuration that is
\* output-only or absent, every pipeline stage declares at least one input
\* and an output, and every output stage declares at least one input and no
\* output; otherwise it returns an error.
C24_ValidateIff ==
    vresult # << >> =>
        LET InputOk(c) ==
                /\ c.output # NoValue
                /\ c.inputs = NoValue
                /\ \/ (c.parameters.field_out /\ ~c.parameters.field_in)
                   \/ (/\ ~c.parameters.field_out
                       /\ c.parameters.fields # "equal"
                       /\ ~c.parameters.field_mapping)
            PipelineOk(c) ==
                /\ c.inputs # NoValue
                /\ Len(c.inputs[1]) >= 1
                /\ c.output # NoValue
            OutputOk(c) ==
                /\ c.inputs # NoValue
                /\ Len(c.inputs[1]) >= 1
                /\ c.output = NoValue
        IN  (vresult.value = << >>) <=>
                /\ \A n \in ValidatedInputs : InputOk(vconfig[n])
                /\ \A n \in ValidatedPipelineStages : PipelineOk(vconfig[n])
                /\ \A n \in ValidatedOutputs : OutputOk(vconfig[n])

\* a configuration was rejected only for the field mapping of an input stage
C24_Witness ==
    /\ vresult # << >>
    /\ vresult.value = <<"input has input fields", "in1">>
    /\ vconfig["in1"].parameters.field_mapping
    /\ ValidateInputStage("in2", vconfig["in2"]) = << >>
    /\ ValidatePipelineStage("tr", vconfig["tr"]) = << >>
    /\ ValidateOutputStage("out", vconfig["out"]) = << >>


(***************************************************************************)
(* Properties of the locks of a stage task                                 *)
(***************************************************************************)
\* C26 as stated: no stage holds a lock while it awaits a downstream
\* publish; a lock taken to poll an I/O handle or to read shared channel
\* state has been released before the publish is awaited.
C26_NoLockAcrossPublish ==
    lkPc = "send" => lkHeld = {}


(***************************************************************************)
(* Properties of wait_for_all                                              *)
(***************************************************************************)
\* C27: wait_for_all returns exactly when every stage task has ended, be it
\* after Terminate, with a processing error or by a panic: it has not
\* returned while a task runs, it can return as soon as all have ended, and
\* its result is Ok also when a task panicked.
C27_JoinWaitsForAll ==
    /\ joined => \A s \in DOMAIN task : task[s] \in Ended
    /\ joined <=> waitResult = "Ok"
    /\ waitResult \in {"none", "Ok"}
    /\ (startPhase = "started" /\ ~joined /\ \A s \in DOMAIN task : task[s] \in Ended)
          => ENABLED JoinAll
    /\ (startPhase = "started" /\ ~joined /\ \E s \in DOMAIN task : task[s] \notin Ended)
          => ~ENABLED JoinAll

\* wait_for_all returned after one task panicked, one failed and the others
\* were terminated
C27_Witness ==
    /\ joined
    /\ task["src"] = "panicked"
    /\ task["file"] = "failed"
    /\ task["fusion"] = "exited"


(***************************************************************************)
(* Properties of Stage::run                                                *)
(***************************************************************************)
\* C28: Stage::run returns in exactly two ways, Ok after it received
\* Terminate on its control channel and Err when a process call returned an
\* error (the last call made: process is not called after run returned);
\* after an Ok result of process the loop calls process again; and a stage
\* whose control channel is absent, or closed with nothing queued, does not
\* return Ok and goes on calling process.
C28_RunReturns ==
    /\ [](/\ srPc = "returned" <=> srResult \in {"Ok", "Err"}
          /\ srResult = "Ok" => (srTaken = 1 /\ srControl.kind # "absent" /\ srControl.sent = 1)
          /\ srResult = "Err" => (srLast = "Err" /\ srTaken = 0)
          /\ srLast = "Err" => srResult = "Err"
          /\ (srPc = "select" /\ srCalls < MaxCalls) => ENABLED RunProcessCall
          /\ (srPc # "returned" /\ ControlRecv(srControl) = "None") => ~ENABLED RunTerminate)
    /\ [][/\ srPc = "returned" => (srCalls' = srCalls /\ srResult' = srResult)
          /\ RunProcessOk => (srPc' = "select" /\ srResult' = "none")
          /\ (srControl.kind = "absent" \/ (srControl.kind = "closed" /\ srControl.pending = 0))
                => srResult' # "Ok"]_vars

\* a stage whose control channel was closed with nothing queued made all its
\* process calls and returned by the error of the last one
C28_Witness ==
    /\ srControl.kind = "closed"
    /\ srControl.sent = 0
    /\ srCalls = MaxCalls
    /\ srResult = "Err"


(***************************************************************************)
(* Properties of get_or_create with conflicting channel types              *)
(***************************************************************************)
\* C29 as stated: when two stages declare the same output stream with
\* different channel types, the second get_or_create is rejected: no stage
\* is handed, as its output, a channel of another type than the one it
\* declared.
C29_TypeMismatchRejected ==
    \A n \in DOMAIN stages :
        (n \in Configured(config) /\ stages[n].output # NoStream)
            => registry[stages[n].output].kind = config[n].kind


(***************************************************************************)
(* Properties of update_watermark, strategy by strategy                    *)
(***************************************************************************)
\* C31: under the Periodic strategy a call of update_watermark emits a
\* watermark iff at least the interval has passed since the last emission
\* (or since the manager was created); the watermark is now minus
\* max_lateness and the interval restarts at now; an earlier call emits
\* nothing and leaves the manager as it was.
C31_PeriodicEmits ==
    (tout # << >> /\ tcfg.watermark_strategy.kind = "Periodic") =>
        LET before == tout.arg
            elapsed == now - before.last_periodic_update
            out == tout.value[1]
        IN  /\ (tout.watermark # NoValue) <=> (elapsed >= tcfg.watermark_strategy.interval)
            /\ tout.watermark # NoValue =>
                  /\ tout.watermark = Some(now - tcfg.max_lateness)
                  /\ wmgr.last_watermark = tout.watermark
                  /\ wmgr.last_periodic_update = now
                  /\ out.timing.watermark = tout.watermark
            /\ tout.watermark = NoValue =>
                  /\ wmgr = before
                  /\ out = tmsg

\* calls at 40 and 100 after the creation: the second emitted 90, having
\* waited exactly the interval
C31_Witness ==
    /\ tout # << >>
    /\ tcfg.watermark_strategy.kind = "Periodic"
    /\ arrivals = 2
    /\ now = 100
    /\ tout.arg.last_periodic_update = 0
    /\ tout.watermark = Some(90)

C33_HeuristicPercentile ==
    (tout # << >> /\ tcfg.watermark_strategy.kind = "Heuristic") =>
        LET n == Len(wmgr.event_timestamps)
            index == HeuristicIndex(n, tcfg.watermark_strategy.percentile)
        IN  /\ n <= 1000
            /\ n >= 10 =>
                  /\ index < n
                  /\ tout.watermark =
                        Some(SortedCopy(wmgr.event_timestamps)[index + 1] - tcfg.max_lateness)


(***************************************************************************)
(* Properties of processing_latency                                        *)
(***************************************************************************)
\* C34: processing_latency is ingestion_time minus event_time when the
\* ingestion is not earlier than the event and zero otherwise, so never
\* below zero; for a message built by Message::new it is zero.
C34_LatencySaturates ==
    /\ (tout # << >> /\ tout.fn = "processing_latency") =>
          LET ti == tmsg.timing
          IN  /\ tout.value >= 0
              /\ ti.ingestion_time >= ti.event_time
                    => tout.value + ti.event_time = ti.ingestion_time
              /\ ti.ingestion_time < ti.event_time => tout.value = 0
    /\ (tout # << >> /\ tout.fn = "new") =>
          /\ tout.value = 0
          /\ tout.arg[1].timing.event_time = now
          /\ tout.arg[1].timing.ingestion_time = now

\* the latency of a message ingested before its event time was asked for
C34_Witness ==
    /\ tout # << >>
    /\ tout.fn = "processing_latency"
    /\ tmsg.timing.ingestion_time = 0
    /\ tmsg.timing.event_time = MaxTime
    /\ tout.value = 0


(***************************************************************************)
(* Properties of the wiring of one stage                                   *)
(***************************************************************************)
\* the stages waiting to be tried again: deferred in the first pass, not yet
\* retried or deferred again in a pass of resolve_deferred_stages, or named
\* by the error
DeferredNow ==
    CASE phase = "first" -> {deferred[i] : i \in 1..Len(deferred)}
      [] phase = "resolve" ->
           {deferred[i] : i \in {j \in 1..Len(deferred) : j >= idx}}
              \cup {newDeferred[i] : i \in 1..Len(newDeferred)}
      [] phase = "err" -> {errNames[i] : i \in 1..Len(errNames)}
      [] OTHER -> {}

\* stage n holds a subscriber of some channel
HoldsSubscriber(n) ==
    \E c \in DOMAIN registry : \E i \in 1..Len(config[n].inputs) :
        <<n, i>> \in registry[c].handles

\* C35: wiring one stage is all-or-nothing.  A try_connect_stage that defers
\* the stage leaves the registry and every context as they were; a deferred
\* stage holds no subscriber, has an empty context and its output channel
\* was not created for it, so the receiver of a Direct channel is never held
\* by a deferred stage.
C35_WiringAllOrNothing ==
    /\ [](\A n \in DeferredNow :
             /\ ~HoldsSubscriber(n)
             /\ stages[n] = NewContext
             /\ \A c \in DirectStreams :
                   c \in InputsOf(config, n)
                      => (registry[c].receiver \/ \E m \in DOMAIN stages : m # n /\ c \in DOMAIN stages[m].inputs))
    /\ [][((phase = "first" /\ Len(deferred') > Len(deferred))
             \/ Len(newDeferred') > Len(newDeferred))
             => (registry' = registry /\ stages' = stages)]_vars

\* a stage with two inputs was deferred for the second while the first, a
\* Direct channel, was there: the receiver of that channel is still to be had
C35_Witness ==
    \E n \in DeferredNow :
        /\ Len(config[n].inputs) = 2
        /\ config[n].inputs[1] \in DirectStreams
        /\ registry[config[n].inputs[1]].receiver
        /\ config[n].inputs[2] \notin DOMAIN registry

(***************************************************************************)
(* build_all, connect_stages and start_all over the entries of a           *)
(* configuration whose sections may use the same stage name                *)
(* (core/pipeline.rs).                                                     *)
(***************************************************************************)

\* the sections of a configuration: inputs, outputs and the stages of two
\* pipelines; each is a map from stage name to StageConfig
EntryPipelines == {"p", "q"}

EntrySections == {"inputs", "outputs"} \cup EntryPipelines

EntryNames == {"a", "b"}

AllEntries == [section : EntrySections, name : EntryNames]

\* the entries of one section, in the order its HashMap yields the names
SectionEntries(cfg, names, section) ==
    SelectSeq([i \in 1..Len(names) |-> [section |-> section, name |-> names[i]]],
              LAMBDA e : e \in cfg)

\* get_all_stage_configs over the sections: the inputs, the stages of every
\* pipeline, the outputs
EntryStageConfigs(cfg, pipelines, names) ==
    SectionEntries(cfg, names, "inputs")
        \o SectionEntries(cfg, names, pipelines[1])
        \o SectionEntries(cfg, names, pipelines[2])
        \o SectionEntries(cfg, names, "outputs")

\* Stage::new for one entry: not wired, no control channel, not initialised
NewEntryStage(e) == [entry |-> e, wired |-> << >>, controls |-> 0, inits |-> 0]

\* create_stages over one section: a map from stage name to the new Stage
EntryCreateStages(cfg, section) ==
    [n \in {e.name : e \in {x \in cfg : x.section = section}} |->
        NewEntryStage([section |-> section, name |-> n])]

\* HashMap::extend: a key that is already there gets the new value
ExtendStages(stgs, created) ==
    [n \in DOMAIN stgs \cup DOMAIN created |->
        IF n \in DOMAIN created THEN created[n] ELSE stgs[n]]

\* create_pipelines: the stages of every pipeline, extended into one map
EntryCreatePipelines(cfg, pipelines) ==
    ExtendStages(EntryCreateStages(cfg, pipelines[1]),
                 EntryCreateStages(cfg, pipelines[2]))

\* build_all: self.stages is extended with the input stages, then with the
\* output stages, then with the pipeline stages
EntryBuildAll(cfg, pipelines) ==
    ExtendStages(ExtendStages(EntryCreateStages(cfg, "inputs"),
                              EntryCreateStages(cfg, "outputs")),
                 EntryCreatePipelines(cfg, pipelines))

\* a validated configuration with at least one input stage; the inputs
\* publish a stream that every other stage reads, so no stage is deferred.
\* enPipelines and enNames are the orders the HashMaps iterate in.
EntryInit ==
    /\ enConfig \in SUBSET AllEntries
    /\ \E e \in enConfig : e.section = "inputs"
    /\ enPipelines \in Orders(EntryPipelines)
    /\ enNames \in Orders(EntryNames)
    /\ enStages = << >>
    /\ enPhase = "config"
    /\ enIdx = 0
    /\ enHandles = << >>
    /\ enTasks = << >>
    \* the channel under test is not in use
    /\ channel = << >> /\ prod = << >> /\ sent = << >> /\ got = << >>
    /\ subscribed = {} /\ panicked = {} /\ attachedAt = << >> /\ completed = << >>
    \* no pipeline is being connected
    /\ config = << >> /\ order = << >> /\ stages = << >> /\ registry = << >>
    /\ phase = "idle" /\ idx = 0 /\ deferred = << >> /\ newDeferred = << >>
    /\ progress = FALSE /\ errNames = << >> /\ tries = 0 /\ run = 0 /\ firstRun = << >>
    \* no stage task has been started
    /\ streams = << >> /\ controlCh = << >> /\ task = << >> /\ proc = << >>
    /\ ctrlc = "idle" /\ joined = FALSE /\ emitted = 0 /\ blockedAtTerm = << >>
    /\ startPhase = "idle" /\ startOrder = << >> /\ startIdx = 0 /\ startStep = 0
    /\ initCalls = << >> /\ initSaw = << >>
    \* no timing function is applied
    /\ tmsg = << >> /\ tcfg = << >> /\ now = 0 /\ now2 = 0 /\ tout = << >>
    /\ wmgr = << >> /\ arrivals = 0 /\ attached = << >> /\ scenario = 0
    \* idle: processor factory, build_all and the input stages
    /\ processorRegistry = << >> /\ defaultsInstalled = 0 /\ stageConfigs = << >>
    /\ built = << >> /\ buildPhase = "none" /\ buildBatch = 0 /\ buildErr = ""
    /\ outbox = << >>
    \* idle: validate_config
    /\ vconfig = << >> /\ vresult = << >>
    \* idle: wait_for_all has not returned (pipeline.rs)
    /\ waitResult = "none"
    \* idle: locks a stage task holds (pipeline.rs, mqtt.rs, channel.rs)
    /\ lkConfig = << >> /\ lkPc = "none" /\ lkHeld = {} /\ lkIdx = 0 /\ lkBuf = << >> /\ lkEmitted = 0
    \* idle: wait_for_all has not returned (pipeline.rs)
    /\ waitResult = "none"
    \* idle: Stage::run of one stage (core/stage.rs)
    /\ srControl = << >> /\ srPc = "none" /\ srCalls = 0 /\ srLast = "none" /\ srResult = "none" /\ srTaken = 0
    \* idle: process of a stage with several inputs (fusion.rs, rule.rs, scale.rs, output/mqtt.rs)
    /\ miKind = "none" /\ miOrder = << >> /\ miArrived = << >> /\ miProcessed = << >> /\ miPos = 0 /\ miLast = "none"
    \* idle: calls of register_processor and create_processor by the application (factory.rs)
    /\ faRegistered = << >> /\ faLast = << >>

EntryOrder == EntryStageConfigs(enConfig, enPipelines, enNames)

\* the task of index t holds the lock of its stage: it is inside Stage::run
HoldsStageLock(t) == t <= Len(enTasks) /\ enTasks[t].state = "running"

\* build_all
BuildAllEntries ==
    /\ enPhase = "config"
    /\ enStages' = EntryBuildAll(enConfig, enPipelines)
    /\ enPhase' = "connect"
    /\ enIdx' = 1
    /\ UNCHANGED <<enConfig, enPipelines, enNames, enHandles, enTasks>>
    /\ UNCHANGED <<chanVars, connVars, runVars, timeVars, buildVars, validVars, lockVars, joinVars, stageVars, multiVars, factoryVars>>

\* one turn of the loop of connect_stages: try_connect_stage looks the stage
\* up by the entry's name and wires it with the entry's configuration
EntryConnect ==
    /\ enPhase = "connect"
    /\ LET e == EntryOrder[enIdx]
       IN  enStages' = [enStages EXCEPT ![e.name].wired = Append(@, e)]
    /\ IF enIdx = Len(EntryOrder)
       THEN enPhase' = "start" /\ enIdx' = 1
       ELSE enIdx' = enIdx + 1 /\ UNCHANGED enPhase
    /\ UNCHANGED <<enConfig, enPipelines, enNames, enHandles, enTasks>>
    /\ UNCHANGED <<chanVars, connVars, runVars, timeVars, buildVars, validVars, lockVars, joinVars, stageVars, multiVars, factoryVars>>

\* one turn of the loop of start_all: the stage found under the entry's name
\* is locked, gets a control receiver and is initialised; a task is spawned
\* for it and its handle is inserted under the name
EntryStart ==
    /\ enPhase = "start"
    /\ LET n == EntryOrder[enIdx].name
       IN  /\ ~\E t \in 1..Len(enTasks) : enTasks[t].stage = n /\ HoldsStageLock(t)
           /\ enStages' = [enStages EXCEPT ![n].controls = @ + 1, ![n].inits = @ + 1]
           /\ enTasks' = Append(enTasks, [stage |-> n, state |-> "spawned"])
           /\ enHandles' = (n :> (Len(enTasks) + 1)) @@ enHandles
    /\ IF enIdx = Len(EntryOrder)
       THEN enPhase' = "started" /\ UNCHANGED enIdx
       ELSE enIdx' = enIdx + 1 /\ UNCHANGED enPhase
    /\ UNCHANGED <<enConfig, enPipelines, enNames>>
    /\ UNCHANGED <<chanVars, connVars, runVars, timeVars, buildVars, validVars, lockVars, joinVars, stageVars, multiVars, factoryVars>>

\* the same turn when Stage::init returns an error: start_all returns it
EntryStartInitErr ==
    /\ enPhase = "start"
    /\ LET n == EntryOrder[enIdx].name
       IN  /\ ~\E t \in 1..Len(enTasks) : enTasks[t].stage = n /\ HoldsStageLock(t)
           /\ enStages' = [enStages EXCEPT ![n].controls = @ + 1, ![n].inits = @ + 1]
    /\ enPhase' = "err"
    /\ UNCHANGED <<enConfig, enPipelines, enNames, enIdx, enHandles, enTasks>>
    /\ UNCHANGED <<chanVars, connVars, runVars, timeVars, buildVars, validVars, lockVars, joinVars, stageVars, multiVars, factoryVars>>

\* a spawned task gets the lock of its stage and enters Stage::run, where it
\* stays until a Terminate arrives
EntryTaskRun(t) ==
    /\ t <= Len(enTasks)
    /\ enTasks[t].state = "spawned"
    /\ ~\E u \in 1..Len(enTasks) : enTasks[u].stage = enTasks[t].stage /\ HoldsStageLock(u)
    /\ enTasks' = [enTasks EXCEPT ![t].state = "running"]
    /\ UNCHANGED <<enConfig, enPipelines, enNames, enStages, enPhase, enIdx, enHandles>>
    /\ UNCHANGED <<chanVars, connVars, runVars, timeVars, buildVars, validVars, lockVars, joinVars, stageVars, multiVars, factoryVars>>

EntryNext ==
    \/ BuildAllEntries
    \/ EntryConnect
    \/ EntryStart
    \/ EntryStartInitErr
    \/ \E t \in 1..Cardinality(AllEntries) : EntryTaskRun(t)

EntrySpec == EntryInit /\ [][EntryNext]_vars

\* the tasks spawned for the stage registered under name n
TasksOf(n) == {t \in 1..Len(enTasks) : enTasks[t].stage = n}

\* C36: every entry of inputs, outputs and the pipelines' stages has a Stage
\* of its own once build_all is done; every Stage has been wired once when
\* connect_stages is done; and when start_all has returned every Stage was
\* initialised once, is run by one task, and there is a recorded handle for
\* every entry, also for entries that carry the same name.
C36_OneStagePerEntry ==
    /\ enPhase \in {"connect", "start", "started"}
          => \A e \in enConfig : \E n \in DOMAIN enStages : enStages[n].entry = e
    /\ enPhase \in {"start", "started"}
          => \A n \in DOMAIN enStages : Len(enStages[n].wired) = 1
    /\ enPhase = "started"
          => /\ \A n \in DOMAIN enStages :
                   enStages[n].inits = 1 /\ Cardinality(TasksOf(n)) = 1
             /\ Cardinality(DOMAIN enHandles) = Cardinality(enConfig)

(***************************************************************************)
(* A Fan-out channel whose subscribers can go away (channel.rs,            *)
(* context.rs): producers and subscribers as in the channel specification, *)
(* and a Subscriber can be dropped.                                        *)
(***************************************************************************)
FanoutDropInit ==
    /\ \E c \in 1..MaxCap : channel = NewChannel("Fanout", c)
    /\ prod = [p \in Producers |-> Idle]
    /\ sent = [p \in Producers |-> 0]
    /\ got = [s \in Subscribers |-> << >>]
    /\ subscribed = {}
    /\ panicked = {}
    /\ attachedAt = << >>
    /\ completed = << >>
    \* no pipeline is being connected
    /\ config = << >> /\ order = << >> /\ stages = << >> /\ registry = << >>
    /\ phase = "idle" /\ idx = 0 /\ deferred = << >> /\ newDeferred = << >>
    /\ progress = FALSE /\ errNames = << >> /\ tries = 0 /\ run = 0 /\ firstRun = << >>
    \* no stage task has been started
    /\ streams = << >> /\ controlCh = << >> /\ task = << >> /\ proc = << >>
    /\ ctrlc = "idle" /\ joined = FALSE /\ emitted = 0 /\ blockedAtTerm = << >>
    /\ startPhase = "idle" /\ startOrder = << >> /\ startIdx = 0 /\ startStep = 0
    /\ initCalls = << >> /\ initSaw = << >>
    \* no timing function is applied
    /\ tmsg = << >> /\ tcfg = << >> /\ now = 0 /\ now2 = 0 /\ tout = << >>
    /\ wmgr = << >> /\ arrivals = 0 /\ attached = << >> /\ scenario = 0
    \* idle: processor factory, build_all and the input stages
    /\ processorRegistry = << >> /\ defaultsInstalled = 0 /\ stageConfigs = << >>
    /\ built = << >> /\ buildPhase = "none" /\ buildBatch = 0 /\ buildErr = ""
    /\ outbox = << >>
    \* idle: validate_config
    /\ vconfig = << >> /\ vresult = << >>
    \* idle: wait_for_all has not returned (pipeline.rs)
    /\ waitResult = "none"
    \* idle: locks a stage task holds (pipeline.rs, mqtt.rs, channel.rs)
    /\ lkConfig = << >> /\ lkPc = "none" /\ lkHeld = {} /\ lkIdx = 0 /\ lkBuf = << >> /\ lkEmitted = 0
    \* idle: wait_for_all has not returned (pipeline.rs)
    /\ waitResult = "none"
    \* idle: build_all, connect_stages and start_all over the configured entries (pipeline.rs)
    /\ enConfig = << >> /\ enPipelines = << >> /\ enNames = << >> /\ enStages = << >> /\ enPhase = "none" /\ enIdx = 0 /\ enHandles = << >> /\ enTasks = << >>
    \* idle: Stage::run of one stage (core/stage.rs)
    /\ srControl = << >> /\ srPc = "none" /\ srCalls = 0 /\ srLast = "none" /\ srResult = "none" /\ srTaken = 0
    \* idle: process of a stage with several inputs (fusion.rs, rule.rs, scale.rs, output/mqtt.rs)
    /\ miKind = "none" /\ miOrder = << >> /\ miArrived = << >> /\ miProcessed = << >> /\ miPos = 0 /\ miLast = "none"
    \* idle: calls of register_processor and create_processor by the application (factory.rs)
    /\ faRegistered = << >> /\ faLast = << >>

\* a stage calls channel.subscribe() and keeps the Subscriber as an input
FanoutDropSubscribe(s) ==
    /\ s \notin channel.handles
    /\ channel' = FanoutSubscribe(channel, s).chan
    /\ subscribed' = subscribed \cup {s}
    /\ UNCHANGED <<prod, sent, got, panicked, attachedAt, completed>>
    /\ UNCHANGED <<connVars, runVars, timeVars, buildVars, validVars, lockVars, joinVars, stageVars, entryVars, multiVars, factoryVars>>

\* a Subscriber is dropped: add_input inserts another Subscriber under the
\* same input name, or the stage that held it is gone.  Its mpsc::Receiver
\* goes with it; the Sender stays in the channel's senders.
DropSubscriber(s) ==
    /\ s \in subscribed
    /\ channel' = [channel EXCEPT !.closed = @ \cup {s}]
    /\ subscribed' = subscribed \ {s}
    /\ UNCHANGED <<prod, sent, got, panicked, attachedAt, completed>>
    /\ UNCHANGED <<connVars, runVars, timeVars, buildVars, validVars, lockVars, joinVars, stageVars, entryVars, multiVars, factoryVars>>

FanoutDropNext ==
    \/ \E s \in Subscribers : FanoutDropSubscribe(s)
    \/ \E s \in Subscribers : DropSubscriber(s)
    \/ \E p \in Producers : ChanPublish(p)
    \/ \E p \in Producers : ChanSend(p)
    \/ \E s \in Subscribers : ChanRecv(s)

FanoutDropSpec == FanoutDropInit /\ [][FanoutDropNext]_vars

\* the publish call of message m has returned
PublishReturned(m) == m \in DOMAIN attachedAt /\ \A p \in Producers : prod[p].msg # m

\* C37: once a Fan-out publish has returned, every subscriber that was
\* subscribed when it began and whose receiver is still open has the message
\* (received, or waiting in its buffer), whether or not other subscribers'
\* receivers were dropped.
C37_OpenSubscribersReceive ==
    \A m \in Messages :
        PublishReturned(m)
            => \A s \in attachedAt[m] \cap subscribed :
                   m \in Range(got[s]) \cup Range(channel.fanq[s])

\* message m comes before message n in the sequence a subscriber received
ReceivedBefore(seq, m, n) ==
    \E i, j \in 1..Len(seq) : i < j /\ seq[i] = m /\ seq[j] = n

\* C38: on a Fan-out channel with several publishers, any two messages that
\* two subscribers have both received were received by both in the same
\* relative order.
C38_SameTotalOrder ==
    channel.kind = "Fanout"
        => \A a, b \in subscribed : \A m, n \in Messages :
               (ReceivedBefore(got[a], m, n) /\ m \in Range(got[b]) /\ n \in Range(got[b]))
                   => ReceivedBefore(got[b], m, n)

(***************************************************************************)
(* Processor::process of a stage that is wired to several inputs, called   *)
(* again and again by Stage::run (aggregator/fusion.rs, transform/rule.rs, *)
(* transform/scale.rs, output/mqtt.rs).                                    *)
(***************************************************************************)
MultiInputKinds == {"fusion", "rule", "scale", "mqtt"}

MultiInputs == {"x", "y"}

\* the processors that wait for an input next to a sleep, inside select!
HasTimeout(kind) == kind \in {"rule", "scale", "mqtt"}

\* the position in context.inputs.iter_mut() that process goes to after the
\* input at pos yielded a message: the scale processor only ever takes the
\* first input; the others go on to the next input, and the call returns
\* after the last
NextInput(kind, pos, n) ==
    IF kind = "scale" THEN 1 ELSE IF pos = n THEN 1 ELSE pos + 1

\* the position after the sleep won the select!: the rule and the mqtt
\* processor break out of the loop, the scale processor returns, and the
\* next call of process starts at the first input again
AfterTimeout(kind, pos, n) == 1

\* the stage has two inputs, which the HashMap of the context yields in the
\* order miOrder on every call; nothing has arrived yet
MultiInputInit ==
    /\ miKind \in MultiInputKinds
    /\ miOrder \in Orders(MultiInputs)
    /\ miArrived = [i \in MultiInputs |-> 0]
    /\ miProcessed = [i \in MultiInputs |-> 0]
    /\ miPos = 1
    /\ miLast = "none"
    \* the channel under test is not in use
    /\ channel = << >> /\ prod = << >> /\ sent = << >> /\ got = << >>
    /\ subscribed = {} /\ panicked = {} /\ attachedAt = << >> /\ completed = << >>
    \* no pipeline is being connected
    /\ config = << >> /\ order = << >> /\ stages = << >> /\ registry = << >>
    /\ phase = "idle" /\ idx = 0 /\ deferred = << >> /\ newDeferred = << >>
    /\ progress = FALSE /\ errNames = << >> /\ tries = 0 /\ run = 0 /\ firstRun = << >>
    \* no stage task has been started
    /\ streams = << >> /\ controlCh = << >> /\ task = << >> /\ proc = << >>
    /\ ctrlc = "idle" /\ joined = FALSE /\ emitted = 0 /\ blockedAtTerm = << >>
    /\ startPhase = "idle" /\ startOrder = << >> /\ startIdx = 0 /\ startStep = 0
    /\ initCalls = << >> /\ initSaw = << >>
    \* no timing function is applied
    /\ tmsg = << >> /\ tcfg = << >> /\ now = 0 /\ now2 = 0 /\ tout = << >>
    /\ wmgr = << >> /\ arrivals = 0 /\ attached = << >> /\ scenario = 0
    \* idle: processor factory, build_all and the input stages
    /\ processorRegistry = << >> /\ defaultsInstalled = 0 /\ stageConfigs = << >>
    /\ built = << >> /\ buildPhase = "none" /\ buildBatch = 0 /\ buildErr = ""
    /\ outbox = << >>
    \* idle: validate_config
    /\ vconfig = << >> /\ vresult = << >>
    \* idle: wait_for_all has not returned (pipeline.rs)
    /\ waitResult = "none"
    \* idle: locks a stage task holds (pipeline.rs, mqtt.rs, channel.rs)
    /\ lkConfig = << >> /\ lkPc = "none" /\ lkHeld = {} /\ lkIdx = 0 /\ lkBuf = << >> /\ lkEmitted = 0
    \* idle: wait_for_all has not returned (pipeline.rs)
    /\ waitResult = "none"
    \* idle: build_all, connect_stages and start_all over the configured entries (pipeline.rs)
    /\ enConfig = << >> /\ enPipelines = << >> /\ enNames = << >> /\ enStages = << >> /\ enPhase = "none" /\ enIdx = 0 /\ enHandles = << >> /\ enTasks = << >>
    \* idle: Stage::run of one stage (core/stage.rs)
    /\ srControl = << >> /\ srPc = "none" /\ srCalls = 0 /\ srLast = "none" /\ srResult = "none" /\ srTaken = 0
    \* idle: calls of register_processor and create_processor by the application (factory.rs)
    /\ faRegistered = << >> /\ faLast = << >>

\* messages waiting in the Subscriber of input i
Waiting(i) == miArrived[i] - miProcessed[i]

\* an upstream stage publishes a message on input i
InputArrives(i) ==
    /\ miArrived[i] < MaxEmit
    /\ miArrived' = [miArrived EXCEPT ![i] = @ + 1]
    /\ UNCHANGED <<miKind, miOrder, miProcessed, miPos, miLast>>
    /\ UNCHANGED <<chanVars, connVars, runVars, timeVars, buildVars, validVars, lockVars, joinVars, stageVars, entryVars, factoryVars>>

\* input.recv() of the input process waits on yields a message, which is
\* handled (and published where there is an output)
ProcessRecv ==
    /\ Waiting(miOrder[miPos]) > 0
    /\ miProcessed' = [miProcessed EXCEPT ![miOrder[miPos]] = @ + 1]
    /\ miPos' = NextInput(miKind, miPos, Len(miOrder))
    /\ miLast' = "recv"
    /\ UNCHANGED <<miKind, miOrder, miArrived>>
    /\ UNCHANGED <<chanVars, connVars, runVars, timeVars, buildVars, validVars, lockVars, joinVars, stageVars, entryVars, factoryVars>>

\* nothing came on the input process waits on before the sleep of the
\* select! was over
ProcessTimeout ==
    /\ HasTimeout(miKind)
    /\ Waiting(miOrder[miPos]) = 0
    /\ miPos' = AfterTimeout(miKind, miPos, Len(miOrder))
    /\ miLast' = "timeout"
    /\ UNCHANGED <<miKind, miOrder, miArrived, miProcessed>>
    /\ UNCHANGED <<chanVars, connVars, runVars, timeVars, buildVars, validVars, lockVars, joinVars, stageVars, entryVars, factoryVars>>

MultiInputNext ==
    \/ \E i \in MultiInputs : InputArrives(i)
    \/ ProcessRecv
    \/ ProcessTimeout

\* the task of the stage is scheduled and its timers fire; the inputs may
\* stay silent
MultiInputFairness == WF_vars(ProcessRecv) /\ WF_vars(ProcessTimeout)

MultiInputSpec == MultiInputInit /\ [][MultiInputNext]_vars /\ MultiInputFairness

\* C39: a stage with two inputs eventually processes every message that
\* arrived on either of them, also while nothing arrives on the other one.
C39_NoInputStarved ==
    \A i \in MultiInputs : (Waiting(i) > 0) ~> (Waiting(i) = 0)

(***************************************************************************)
(* The processor factory used directly: register_processor,                *)
(* create_processor and list_processors called in any order               *)
(* (processors/factory.rs).                                                *)
(***************************************************************************)

\* the names the application registers constructors under: two built-in
\* names and a name of its own
FactoryNames == {"simulated", "console"} \cup CustomProcessors

\* the constructors the application registers
Constructors == {"c1", "c2"}

\* nothing is registered and the factory has not been accessed
FactoryInit ==
    /\ processorRegistry = << >>
    /\ defaultsInstalled = 0
    /\ stageConfigs = << >>
    /\ built = << >>
    /\ buildPhase = "idle"
    /\ buildBatch = 0
    /\ buildErr = ""
    /\ outbox = << >>
    /\ faRegistered = << >>
    /\ faLast = [fn |-> "none"]
    \* the channel under test is not in use
    /\ channel = << >> /\ prod = << >> /\ sent = << >> /\ got = << >>
    /\ subscribed = {} /\ panicked = {} /\ attachedAt = << >> /\ completed = << >>
    \* no pipeline is being connected
    /\ config = << >> /\ order = << >> /\ stages = << >> /\ registry = << >>
    /\ phase = "idle" /\ idx = 0 /\ deferred = << >> /\ newDeferred = << >>
    /\ progress = FALSE /\ errNames = << >> /\ tries = 0 /\ run = 0 /\ firstRun = << >>
    \* no stage task has been started
    /\ streams = << >> /\ controlCh = << >> /\ task = << >> /\ proc = << >>
    /\ ctrlc = "idle" /\ joined = FALSE /\ emitted = 0 /\ blockedAtTerm = << >>
    /\ startPhase = "idle" /\ startOrder = << >> /\ startIdx = 0 /\ startStep = 0
    /\ initCalls = << >> /\ initSaw = << >>
    \* no timing function is applied
    /\ tmsg = << >> /\ tcfg = << >> /\ now = 0 /\ now2 = 0 /\ tout = << >>
    /\ wmgr = << >> /\ arrivals = 0 /\ attached = << >> /\ scenario = 0
    \* idle: validate_config
    /\ vconfig = << >> /\ vresult = << >>
    \* idle: wait_for_all has not returned (pipeline.rs)
    /\ waitResult = "none"
    \* idle: locks a stage task holds (pipeline.rs, mqtt.rs, channel.rs)
    /\ lkConfig = << >> /\ lkPc = "none" /\ lkHeld = {} /\ lkIdx = 0 /\ lkBuf = << >> /\ lkEmitted = 0
    \* idle: wait_for_all has not returned (pipeline.rs)
    /\ waitResult = "none"
    \* idle: build_all, connect_stages and start_all over the configured entries (pipeline.rs)
    /\ enConfig = << >> /\ enPipelines = << >> /\ enNames = << >> /\ enStages = << >> /\ enPhase = "none" /\ enIdx = 0 /\ enHandles = << >> /\ enTasks = << >>
    \* idle: process of a stage with several inputs (fusion.rs, rule.rs, scale.rs, output/mqtt.rs)
    /\ miKind = "none" /\ miOrder = << >> /\ miArrived = << >> /\ miProcessed = << >> /\ miPos = 0 /\ miLast = "none"
    \* idle: Stage::run of one stage (core/stage.rs)
    /\ srControl = << >> /\ srPc = "none" /\ srCalls = 0 /\ srLast = "none" /\ srResult = "none" /\ srTaken = 0

\* register_processor(n, c)
FactoryRegister(n, c) ==
    /\ processorRegistry' = RegisterProcessorIn(processorRegistry, n, c)
    /\ faRegistered' = (n :> c) @@ faRegistered
    /\ faLast' = [fn |-> "register_processor", name |-> n, constructor |-> c]
    /\ UNCHANGED <<defaultsInstalled, stageConfigs, built, buildPhase, buildBatch, buildErr, outbox>>
    /\ UNCHANGED <<chanVars, connVars, runVars, timeVars, validVars, lockVars, joinVars, stageVars, entryVars, multiVars>>

\* create_processor(n, config) with a configuration every constructor accepts
FactoryCreate(n) ==
    /\ LET made == CreateProcessor(Factory, n, [type |-> n, valid |-> TRUE])
       IN  /\ processorRegistry' = made.factory.registry
           /\ defaultsInstalled' = made.factory.installs
           /\ faLast' = [fn |-> "create_processor", name |-> n,
                         constructor |-> IF made.result.ok
                                         THEN made.result.processor.constructor
                                         ELSE "not found"]
    /\ UNCHANGED <<faRegistered, stageConfigs, built, buildPhase, buildBatch, buildErr, outbox>>
    /\ UNCHANGED <<chanVars, connVars, runVars, timeVars, validVars, lockVars, joinVars, stageVars, entryVars, multiVars>>

\* list_processors
FactoryList ==
    /\ processorRegistry' = EnsureDefaultProcessors(Factory).registry
    /\ defaultsInstalled' = EnsureDefaultProcessors(Factory).installs
    /\ faLast' = [fn |-> "list_processors"]
    /\ UNCHANGED <<faRegistered, stageConfigs, built, buildPhase, buildBatch, buildErr, outbox>>
    /\ UNCHANGED <<chanVars, connVars, runVars, timeVars, validVars, lockVars, joinVars, stageVars, entryVars, multiVars>>

FactoryNext ==
    \/ \E n \in FactoryNames, c \in Constructors : FactoryRegister(n, c)
    \/ \E n \in FactoryNames : FactoryCreate(n)
    \/ FactoryList

FactorySpec == FactoryInit /\ [][FactoryNext]_vars

\* C40: a create_processor(n, ...) invokes the constructor of the last
\* register_processor(n, c) the application made, also when n is a built-in
\* name and the registration came before the first access to the factory.
C40_RegisteredConstructorInvoked ==
    (faLast.fn = "create_processor" /\ faLast.name \in DOMAIN faRegistered)
        => faLast.constructor = faRegistered[faLast.name]

=============================================================================
